---- MODULE Spec2Model ----
(***************************************************************************)
(* A model of dwat, a reader of DWARF type information.                    *)
(*                                                                         *)
(* The reader (src/src/dwarf.rs, Dwarf / OwnedDwarf) holds the debug       *)
(* sections and never changes them.  The model keeps the decoded content   *)
(* of .debug_info and .debug_str in the variable dwarf: a sequence of      *)
(* compile units, each with its address size and its DIEs in depth-first   *)
(* order (the order gimli's next_dfs yields them), every DIE a tag, a      *)
(* depth and the attributes the library reads.  An entry offset is the     *)
(* position of the DIE in its unit, a header offset the position of the    *)
(* unit in the section.                                                    *)
(*                                                                         *)
(* Every library call is one action; it records the call in op and arg     *)
(* and its result in ret.                                                  *)
(***************************************************************************)
EXTENDS Integers, Sequences, FiniteSets

VARIABLES dwarf, op, arg, ret

vars == <<dwarf, op, arg, ret>>

-----------------------------------------------------------------------------
(* Bounds of the model.                                                    *)

\* the largest number of DIEs below the compile-unit roots of a scanned input
MaxDies == 3

\* the largest number of type-modifier DIEs in a type graph
MaxMods == 2

\* the largest number of members of a struct or union
MaxMembers == 3

\* the largest number of subrange children of an array
MaxSubranges == 2

\* recursion budget of size derivation; larger than any acyclic chain of the
\* inputs, so that running out of it means the derivation does not return
MaxFuel == 8

\* width of usize in the model (the build's is 64)
UsizeBits == 16

UsizeModulus == 2 ^ UsizeBits

-----------------------------------------------------------------------------
(* Results: Result<T, Error> and Option<T>.                                *)

Ok(v) == [ok |-> TRUE, val |-> v, err |-> "none"]

Err(e) == [ok |-> FALSE, val |-> 0, err |-> e]

IsErr(r, e) == ~r.ok /\ r.err = e

IsOkVal(r, v) == r.ok /\ r.val = v

None == [some |-> FALSE, loc |-> [die_offset |-> 0, entry_offset |-> 0]]

Some(loc) == [some |-> TRUE, loc |-> loc]

-----------------------------------------------------------------------------
(* Attribute values, by the forms the library tells apart.                 *)

\* the attribute is not among the DIE's attributes
Absent == [form |-> "absent", val |-> 0]

\* a constant form for which gimli's udata_value() is Some(n)
Udata(n) == [form |-> "udata", val |-> n]

\* DW_FORM_exprloc
Exprloc == [form |-> "exprloc", val |-> 0]

\* a location-list reference
LocList == [form |-> "loclist", val |-> 0]

\* any other form (a negative sdata, a reference, a flag, ...)
OtherForm == [form |-> "other", val |-> 0]

\* DW_AT_type as a unit-relative reference to the DIE at entry offset i
UnitRef(i) == [form |-> "ref", val |-> i]

\* DW_AT_name, inline (DW_FORM_string)
NameString(s) == [form |-> "string", str |-> s, off |-> 0]

\* DW_AT_name as an offset into .debug_str (DW_FORM_strp)
NameStrp(o) == [form |-> "strp", str |-> "", off |-> o]

\* DW_AT_name as an offset into .debug_line_str (DW_FORM_line_strp)
NameLineStrp(o) == [form |-> "line_strp", str |-> "", off |-> o]

NoName == [form |-> "absent", str |-> "", off |-> 0]

\* a DIE with a tag and a depth and no attribute
Die(t, d) ==
    [tag |-> t, depth |-> d, name |-> NoName, declaration |-> FALSE,
     byte_size |-> Absent, type |-> Absent,
     data_member_location |-> Absent, upper_bound |-> Absent,
     count |-> Absent, bit_size |-> Absent, const_value |-> Absent,
     alignment |-> Absent]

\* the root DIE of a unit
RootDie == Die("DW_TAG_compile_unit", 0)

-----------------------------------------------------------------------------
(* Handles.  A handle is a kind and a DwarfUnit position.                  *)

\* impl_tagged!: the DWARF tag of each handle kind
tag(T) ==
    CASE T = "Struct"      -> "DW_TAG_structure_type"
      [] T = "Array"       -> "DW_TAG_array_type"
      [] T = "Enum"        -> "DW_TAG_enumeration_type"
      [] T = "Pointer"     -> "DW_TAG_pointer_type"
      [] T = "Subroutine"  -> "DW_TAG_subroutine_type"
      [] T = "Typedef"     -> "DW_TAG_typedef"
      [] T = "Union"       -> "DW_TAG_union_type"
      [] T = "Base"        -> "DW_TAG_base_type"
      [] T = "Const"       -> "DW_TAG_const_type"
      [] T = "Volatile"    -> "DW_TAG_volatile_type"
      [] T = "Restrict"    -> "DW_TAG_restrict_type"
      [] T = "Variable"    -> "DW_TAG_variable"
      [] T = "CompileUnit" -> "DW_TAG_compile_unit"
      [] T = "Subprogram"  -> "DW_TAG_subprogram"

DwarfUnit(u, i) == [die_offset |-> u, entry_offset |-> i]

Handle(T, loc) == [kind |-> T, location |-> loc]

\* the unit a header offset designates
Unit(d, loc) == d.units[loc.die_offset]

\* whether gimli's unit.entry(offset) resolves
EntryResolves(unit, i) == i \in 1..Len(unit.entries)

-----------------------------------------------------------------------------
(* Names.                                                                  *)

\* debug_str.get_str(offset): the string at an offset of .debug_str
from_dbg_str_ref(d, o) ==
    IF o \in DOMAIN d.debug_str THEN Ok(d.debug_str[o])
    ELSE Err("InvalidAttributeError")

\* debug_line_str.get_str(offset)
from_dbg_line_str_ref(d, o) ==
    IF o \in DOMAIN d.debug_line_str THEN Ok(d.debug_line_str[o])
    ELSE Err("InvalidAttributeError")

get_entry_name(d, entry) ==
    CASE entry.name.form = "string"    -> Ok(entry.name.str)
      [] entry.name.form = "strp"      -> from_dbg_str_ref(d, entry.name.off)
      [] entry.name.form = "line_strp" ->
             from_dbg_line_str_ref(d, entry.name.off)
      [] entry.name.form = "absent"    -> Err("NameAttributeNotFound")
      [] OTHER                         -> Err("InvalidAttributeError")

-----------------------------------------------------------------------------
(* The scan of .debug_info.                                                *)

\* a faulty variant: the tag is not compared
UnitTagged_any(d, u, t) ==
    [i \in 1..Len(d.units[u].entries) |-> [die_offset |-> u, entry_offset |-> i]]

\* the positions of a unit's DIEs of a tag, in depth-first order
UnitTagged(d, u, t) ==
    LET es  == d.units[u].entries
        idx == SelectSeq([i \in 1..Len(es) |-> i], LAMBDA i : es[i].tag = t)
    IN  [k \in 1..Len(idx) |-> DwarfUnit(u, idx[k])]

RECURSIVE ScanFrom(_, _, _)
\* units from header u on, in section order; a unit whose abbreviations do
\* not parse is passed over
ScanFrom(d, t, u) ==
    IF u > Len(d.units) THEN << >>
    ELSE (IF d.units[u].parses THEN UnitTagged(d, u, t) ELSE << >>)
             \o ScanFrom(d, t, u + 1)

\* the positions at which the scan calls its callback, in call order, as
\* long as the callback asks for more
for_each_tagged_entry(d, T) == ScanFrom(d, tag(T), 1)

\* a faulty variant: the hits of the scan, last first
RECURSIVE Reversed(_)
Reversed(s) == IF s = << >> THEN << >> ELSE Reversed(Tail(s)) \o <<Head(s)>>

lookup_type_last(d, T, name) ==
    LET hits == SelectSeq(for_each_tagged_entry(d, T),
                    LAMBDA loc :
                        IsOkVal(get_entry_name(d,
                            Unit(d, loc).entries[loc.entry_offset]), name))
    IN  Ok(IF hits = << >> THEN None ELSE Some(Head(Reversed(hits))))

\* the callback stops the scan at the first DIE whose name decodes to the
\* queried name
lookup_type(d, T, name) ==
    LET hits == SelectSeq(for_each_tagged_entry(d, T),
                    LAMBDA loc :
                        IsOkVal(get_entry_name(d,
                            Unit(d, loc).entries[loc.entry_offset]), name))
    IN  Ok(IF hits = << >> THEN None ELSE Some(Head(hits)))

-----------------------------------------------------------------------------
(* Inputs of the index operations: two compile units sharing at most       *)
(* MaxDies structure, union and base DIEs, named inline or through         *)
(* .debug_str, some of them declarations.                                  *)

Names == {"foo", "bar"}

DebugStr == <<"foo", "bar">>

ScanTags == {"DW_TAG_structure_type", "DW_TAG_union_type"}

ScanNames == {NoName, NameString("foo"), NameStrp(2)}

ScanDies ==
    { [Die(t, 1) EXCEPT !.name = n, !.declaration = decl,
                        !.byte_size = IF decl THEN Absent ELSE Udata(4)] :
        t \in ScanTags, n \in ScanNames, decl \in BOOLEAN }

ScanUnit(dies) ==
    [address_size |-> 8, parses |-> TRUE, entries |-> <<RootDie>> \o dies]

\* the DIEs lo..hi of a sequence
Slice(s, lo, hi) == [k \in 1..(hi - lo + 1) |-> s[lo + k - 1]]

ScanInput(ds, cut) ==
    [units |-> <<ScanUnit(Slice(ds, 1, cut)),
                 ScanUnit(Slice(ds, cut + 1, Len(ds)))>>,
     debug_str |-> DebugStr, debug_line_str |-> << >>]

ScanKinds == {"Struct", "Union"}

-----------------------------------------------------------------------------
(* The index operations.                                                   *)

InitScan ==
    /\ \E n \in 0..MaxDies :
         \E ds \in [1..n -> ScanDies] :
            \E cut \in 0..n : dwarf = ScanInput(ds, cut)
    /\ op = "load"
    /\ arg = << >>
    /\ ret = << >>

LookupType ==
    \E T \in ScanKinds, name \in Names :
        /\ op' = "lookup_type"
        /\ arg' = [T |-> T, name |-> name]
        /\ ret' = lookup_type(dwarf, T, name)
        /\ UNCHANGED dwarf

NextScan == LookupType

SpecScan == InitScan /\ [][NextScan]_vars

-----------------------------------------------------------------------------
(* Claims about lookup_type.                                               *)

\* the DIE a position designates
EntryAt(d, loc) == Unit(d, loc).entries[loc.entry_offset]

\* every position of the debug info
Positions(d) ==
    UNION { { DwarfUnit(u, i) : i \in 1..Len(d.units[u].entries) } :
            u \in 1..Len(d.units) }

\* the DIE at a position has the tag of kind T and carries the name
Carries(d, loc, T, name) ==
    /\ EntryAt(d, loc).tag = tag(T)
    /\ IsOkVal(get_entry_name(d, EntryAt(d, loc)), name)

\* position a lies before position b in scan order
Before(a, b) ==
    \/ a.die_offset < b.die_offset
    \/ a.die_offset = b.die_offset /\ a.entry_offset < b.entry_offset

\* C1: lookup_type::<T>(name) is Some exactly when some DIE of tag T that is
\* not a declaration carries the name; a name that only declarations carry
\* yields None.
C1_LookupOnlyDefinitions ==
    op = "lookup_type" =>
        (ret.val.some <=>
            \E loc \in Positions(dwarf) :
                /\ Carries(dwarf, loc, arg.T, arg.name)
                /\ ~EntryAt(dwarf, loc).declaration)

\* C2: when lookup_type::<T>(name) is Some(h), h is the first DIE in scan
\* order (units in section order, depth-first within a unit) with tag T and
\* that name, and the name of h is the queried name.
C2_LookupFirstInScanOrder ==
    (op = "lookup_type" /\ ret.ok /\ ret.val.some) =>
        /\ ret.val.loc \in Positions(dwarf)
        /\ Carries(dwarf, ret.val.loc, arg.T, arg.name)
        /\ \A loc \in Positions(dwarf) :
               Before(loc, ret.val.loc) =>
                   ~Carries(dwarf, loc, arg.T, arg.name)

\* a lookup that found the first of two DIEs carrying the name, the second
\* in a later unit, behind a DIE of the tag that does not carry it
C2_Witness ==
    /\ op = "lookup_type"
    /\ ret.val.some
    /\ \E later \in Positions(dwarf), other \in Positions(dwarf) :
          /\ Carries(dwarf, later, arg.T, arg.name)
          /\ ret.val.loc.die_offset < later.die_offset
          /\ EntryAt(dwarf, other).tag = tag(arg.T)
          /\ Before(other, ret.val.loc)

-----------------------------------------------------------------------------
(* The type graph: inner types, members, sizes.  The u_ operations take    *)
(* the resolved unit, as in the source.                                    *)

\* DW_AT_byte_size of a DIE
get_entry_byte_size(entry) ==
    CASE entry.byte_size.form = "udata"   -> Ok(entry.byte_size.val)
      [] entry.byte_size.form = "exprloc" -> Err("UnimplementedError")
      [] entry.byte_size.form = "loclist" -> Err("UnimplementedError")
      [] entry.byte_size.form = "absent"  -> Err("ByteSizeAttributeNotFound")
      [] OTHER                            -> Err("InvalidAttributeError")

\* a faulty variant: a DIE of any other tag is taken for a struct
entry_to_type_lenient(location, entry) ==
    IF entry.tag \in {"DW_TAG_array_type", "DW_TAG_pointer_type",
                      "DW_TAG_typedef", "DW_TAG_base_type"}
    THEN Ok(Handle(CHOOSE K \in {"Array", "Pointer", "Typedef", "Base"} :
                      tag(K) = entry.tag, location))
    ELSE Ok(Handle("Struct", location))

\* the tag table of get_type
entry_to_type(location, entry) ==
    CASE entry.tag = "DW_TAG_array_type"       -> Ok(Handle("Array", location))
      [] entry.tag = "DW_TAG_enumeration_type" -> Ok(Handle("Enum", location))
      [] entry.tag = "DW_TAG_pointer_type"     -> Ok(Handle("Pointer", location))
      [] entry.tag = "DW_TAG_structure_type"   -> Ok(Handle("Struct", location))
      [] entry.tag = "DW_TAG_subroutine_type"  ->
             Ok(Handle("Subroutine", location))
      [] entry.tag = "DW_TAG_typedef"          -> Ok(Handle("Typedef", location))
      [] entry.tag = "DW_TAG_union_type"       -> Ok(Handle("Union", location))
      [] entry.tag = "DW_TAG_base_type"        -> Ok(Handle("Base", location))
      [] entry.tag = "DW_TAG_const_type"       -> Ok(Handle("Const", location))
      [] entry.tag = "DW_TAG_volatile_type"    ->
             Ok(Handle("Volatile", location))
      [] entry.tag = "DW_TAG_restrict_type"    ->
             Ok(Handle("Restrict", location))
      [] OTHER                                 -> Err("UnimplementedError")

\* DW_AT_type of the DIE of a handle, decoded through the tag table
u_get_type(unit, self) ==
    IF ~EntryResolves(unit, self.location.entry_offset) THEN Err("DIEError")
    ELSE LET entry == unit.entries[self.location.entry_offset]
         IN  IF entry.type.form = "ref"
             THEN LET type_loc == DwarfUnit(self.location.die_offset,
                                            entry.type.val)
                  IN  IF EntryResolves(unit, entry.type.val)
                      THEN entry_to_type(type_loc, unit.entries[entry.type.val])
                      ELSE Err("DIEError")
             ELSE Err("TypeAttributeNotFound")

RECURSIVE MembersFrom(_, _, _)
\* the DIEs from entry offset i on, as long as they are members
MembersFrom(unit, u, i) ==
    IF i > Len(unit.entries) \/ unit.entries[i].tag # "DW_TAG_member"
    THEN << >>
    ELSE <<Handle("Member", DwarfUnit(u, i))>> \o MembersFrom(unit, u, i + 1)

\* the members of a struct or union: the DIEs that follow it in depth-first
\* order, up to the first DIE that is not a member
u_members(unit, self) ==
    IF ~EntryResolves(unit, self.location.entry_offset) THEN Err("DIEError")
    ELSE Ok(MembersFrom(unit, self.location.die_offset,
                        self.location.entry_offset + 1))

\* a faulty variant: an expression location read as offset 0
u_member_location_lenient(unit, self) ==
    IF ~EntryResolves(unit, self.location.entry_offset) THEN Err("DIEError")
    ELSE LET a == unit.entries[self.location.entry_offset].data_member_location
         IN  CASE a.form = "udata"   -> Ok(a.val)
               [] a.form = "exprloc" -> Ok(0)
               [] a.form = "loclist" -> Err("UnimplementedError")
               [] a.form = "absent"  -> Err("MemberLocationAttributeNotFound")
               [] OTHER              -> Err("InvalidAttributeError")

\* DW_AT_data_member_location of a member
u_member_location(unit, self) ==
    IF ~EntryResolves(unit, self.location.entry_offset) THEN Err("DIEError")
    ELSE LET a == unit.entries[self.location.entry_offset].data_member_location
         IN  CASE a.form = "udata"   -> Ok(a.val)
               [] a.form = "exprloc" -> Err("UnimplementedError")
               [] a.form = "loclist" -> Err("UnimplementedError")
               [] a.form = "absent"  -> Err("MemberLocationAttributeNotFound")
               [] OTHER              -> Err("InvalidAttributeError")

RECURSIVE BoundFrom(_, _)
\* the bound of an array, from the DIEs that follow it as long as they are
\* subranges: the first DW_AT_upper_bound or DW_AT_count met decides
BoundFrom(unit, i) ==
    IF i > Len(unit.entries) \/ unit.entries[i].tag # "DW_TAG_subrange_type"
    THEN Ok(0)
    ELSE LET upper == unit.entries[i].upper_bound
             count == unit.entries[i].count
         IN  IF upper.form # "absent"
             THEN CASE upper.form = "udata" ->
                           Ok((upper.val + 1) % UsizeModulus)
                    [] upper.form \in {"exprloc", "loclist"} ->
                           Err("UnimplementedError")
                    [] OTHER -> Err("InvalidAttributeError")
             ELSE IF count.form # "absent"
             THEN CASE count.form = "udata" -> Ok(count.val)
                    [] count.form \in {"exprloc", "loclist"} ->
                           Err("UnimplementedError")
                    [] OTHER -> Err("InvalidAttributeError")
             ELSE BoundFrom(unit, i + 1)

u_get_bound(unit, self) ==
    IF ~EntryResolves(unit, self.location.entry_offset) THEN Err("DIEError")
    ELSE BoundFrom(unit, self.location.entry_offset + 1)

\* DW_AT_byte_size of the DIE of a handle
EntryByteSize(unit, self) ==
    IF ~EntryResolves(unit, self.location.entry_offset) THEN Err("DIEError")
    ELSE get_entry_byte_size(unit.entries[self.location.entry_offset])

RECURSIVE Type_u_byte_size(_, _, _)

\* the size of the inner type
InnerByteSize(unit, self, fuel) ==
    LET inner_type == u_get_type(unit, self)
    IN  IF inner_type.ok THEN Type_u_byte_size(unit, inner_type.val, fuel)
        ELSE inner_type

\* a faulty variant: the members' sizes stand in for a missing DW_AT_byte_size
Struct_u_byte_size_derived(unit, self) ==
    LET own == EntryByteSize(unit, self)
    IN  IF IsErr(own, "ByteSizeAttributeNotFound")
        THEN Ok(Len(u_members(unit, self).val)) ELSE own

Struct_u_byte_size(unit, self) == EntryByteSize(unit, self)

Base_u_byte_size(unit, self) == EntryByteSize(unit, self)

\* a faulty variant: an emitted DW_AT_byte_size wins over the address size
Pointer_u_byte_size_own(unit, self) ==
    LET own == EntryByteSize(unit, self)
    IN  IF own.ok THEN own ELSE Ok(unit.address_size)

Pointer_u_byte_size(unit, self) == Ok(unit.address_size)

Typedef_u_byte_size(unit, self, fuel) == InnerByteSize(unit, self, fuel)

Volatile_u_byte_size(unit, self, fuel) == InnerByteSize(unit, self, fuel)

Restrict_u_byte_size(unit, self, fuel) == InnerByteSize(unit, self, fuel)

Variable_u_byte_size(unit, self, fuel) == InnerByteSize(unit, self, fuel)

Const_u_byte_size(unit, self, fuel) ==
    LET entry_size == EntryByteSize(unit, self)
    IN  IF IsErr(entry_size, "DIEError") \/ entry_size.ok THEN entry_size
        ELSE InnerByteSize(unit, self, fuel)

Enum_u_byte_size(unit, self, fuel) ==
    LET entry_size == EntryByteSize(unit, self)
    IN  IF IsErr(entry_size, "DIEError") \/ entry_size.ok THEN entry_size
        ELSE InnerByteSize(unit, self, fuel)

RECURSIVE MaxMemberSize(_, _, _, _)
\* the loop of Union::u_byte_size over the members not yet visited
MaxMemberSize(unit, members, bytesz, fuel) ==
    IF members = << >> THEN Ok(bytesz)
    ELSE LET membytesz == InnerByteSize(unit, Head(members), fuel)
         IN  IF ~membytesz.ok THEN membytesz
             ELSE MaxMemberSize(unit, Tail(members),
                      IF membytesz.val > bytesz THEN membytesz.val ELSE bytesz,
                      fuel)

\* a faulty variant: the size of the last member instead of the largest
RECURSIVE LastMemberSize(_, _, _, _)
LastMemberSize(unit, members, bytesz, fuel) ==
    IF members = << >> THEN Ok(bytesz)
    ELSE LET membytesz == InnerByteSize(unit, Head(members), fuel)
         IN  IF ~membytesz.ok THEN membytesz
             ELSE LastMemberSize(unit, Tail(members), membytesz.val, fuel)

Union_u_byte_size_last(unit, self, fuel) ==
    LET entry_size == EntryByteSize(unit, self)
    IN  IF IsErr(entry_size, "DIEError") \/ entry_size.ok THEN entry_size
        ELSE LastMemberSize(unit, u_members(unit, self).val, 0, fuel)

Union_u_byte_size(unit, self, fuel) ==
    LET entry_size == EntryByteSize(unit, self)
    IN  IF IsErr(entry_size, "DIEError") \/ entry_size.ok THEN entry_size
        ELSE MaxMemberSize(unit, u_members(unit, self).val, 0, fuel)

u_entry_size(unit, self, fuel) == InnerByteSize(unit, self, fuel)

Array_u_byte_size(unit, self, fuel) ==
    LET byte_size == EntryByteSize(unit, self)
    IN  IF IsErr(byte_size, "DIEError") \/ byte_size.ok THEN byte_size
        ELSE LET inner_size == u_entry_size(unit, self, fuel)
                 bound      == u_get_bound(unit, self)
             IN  IF ~inner_size.ok THEN inner_size
                 ELSE IF ~bound.ok THEN bound
                 ELSE Ok((inner_size.val * bound.val) % UsizeModulus)

\* Type::u_byte_size: the dispatch on the variant.  A derivation that has
\* used up its budget is one that does not return.
Type_u_byte_size(unit, typ, fuel) ==
    IF fuel = 0 THEN Err("NoReturn")
    ELSE CASE typ.kind = "Struct"   -> Struct_u_byte_size(unit, typ)
           [] typ.kind = "Array"    -> Array_u_byte_size(unit, typ, fuel - 1)
           [] typ.kind = "Pointer"  -> Pointer_u_byte_size(unit, typ)
           [] typ.kind = "Base"     -> Base_u_byte_size(unit, typ)
           [] typ.kind = "Union"    -> Union_u_byte_size(unit, typ, fuel - 1)
           [] typ.kind = "Enum"     -> Enum_u_byte_size(unit, typ, fuel - 1)
           [] typ.kind = "Typedef"  -> Typedef_u_byte_size(unit, typ, fuel - 1)
           [] typ.kind = "Const"    -> Const_u_byte_size(unit, typ, fuel - 1)
           [] typ.kind = "Volatile" -> Volatile_u_byte_size(unit, typ, fuel - 1)
           [] typ.kind = "Restrict" -> Restrict_u_byte_size(unit, typ, fuel - 1)
           [] typ.kind = "Variable" -> Variable_u_byte_size(unit, typ, fuel - 1)
           [] OTHER                 -> Err("ByteSizeAttributeNotFound")

\* unit_context: the unit of a handle, resolved from its header offset
HeaderResolves(d, loc) == loc.die_offset \in 1..Len(d.units)

\* Type::byte_size and the byte_size of each kind
byte_size(d, typ) ==
    IF ~HeaderResolves(d, typ.location) THEN Err("CUError")
    ELSE Type_u_byte_size(Unit(d, typ.location), typ, MaxFuel)

\* Member::byte_size: the size of the member's type
Member_byte_size(d, self) ==
    IF ~HeaderResolves(d, self.location) THEN Err("CUError")
    ELSE InnerByteSize(Unit(d, self.location), self, MaxFuel)

\* Member::offset, the alias of member_location
offset(d, self) ==
    IF ~HeaderResolves(d, self.location) THEN Err("CUError")
    ELSE u_member_location(Unit(d, self.location), self)

\* HasMembers::members
members(d, self) ==
    IF ~HeaderResolves(d, self.location) THEN Err("CUError")
    ELSE u_members(Unit(d, self.location), self)

\* InnerType::get_type
get_type(d, self) ==
    IF ~HeaderResolves(d, self.location) THEN Err("CUError")
    ELSE u_get_type(Unit(d, self.location), self)

-----------------------------------------------------------------------------
(* Struct::alignment_stats.                                                *)

\* a - b on usize: a panic where the build checks overflow, else wrapped
usize_sub(a, b, overflow_checks) ==
    IF a >= b THEN Ok(a - b)
    ELSE IF overflow_checks THEN Err("panic")
    ELSE Ok(a - b + UsizeModulus)

\* a + b on usize
usize_add(a, b, overflow_checks) ==
    IF a + b < UsizeModulus THEN Ok(a + b)
    ELSE IF overflow_checks THEN Err("panic")
    ELSE Ok(a + b - UsizeModulus)

\* the trackers before the first member
AlignmentStart ==
    [nr_holes |-> 0, hole_positions |-> << >>, sum_holes |-> 0,
     sum_member_size |-> 0, nr_unnat_alignment |-> 0,
     prev_offset |-> 0, prev_size |-> 0]

\* the entry size of an array member, the member's size for any other type
ByteSizeSingle(d, member, curr_size) ==
    LET typ == get_type(d, member)
    IN  IF ~typ.ok THEN typ
        ELSE IF typ.val.kind = "Array"
        THEN IF ~HeaderResolves(d, typ.val.location) THEN Err("CUError")
             ELSE u_entry_size(Unit(d, typ.val.location), typ.val, MaxFuel)
        ELSE Ok(curr_size)

\* curr_offset - (prev_size + prev_offset), the distance from the end of the
\* previous member
HoleSize(st, curr_offset, overflow_checks) ==
    IF st.prev_size + st.prev_offset >= UsizeModulus /\ overflow_checks
    THEN Err("panic")
    ELSE usize_sub(curr_offset,
                   (st.prev_size + st.prev_offset) % UsizeModulus,
                   overflow_checks)

\* the end of a pass that measures the member: sum_holes += hole_sz, the
\* hole and alignment counters, and the member becomes the previous one
AlignmentTrack(idx, st, curr_offset, curr_size, byte_size_single, hole_sz, holes) ==
    IF ~holes.ok THEN holes
    ELSE Ok([st EXCEPT
            !.sum_holes = holes.val,
            !.nr_holes = IF hole_sz > 0 THEN @ + 1 ELSE @,
            !.hole_positions =
                IF hole_sz > 0 THEN Append(@, <<idx, hole_sz>>) ELSE @,
            !.nr_unnat_alignment =
                IF curr_offset % byte_size_single # 0 THEN @ + 1 ELSE @,
            !.prev_offset = curr_offset,
            !.prev_size = curr_size])

\* the pass from `let hole_sz` on
AlignmentHole(idx, st, curr_offset, curr_size, byte_size_single, hole_sz, overflow_checks) ==
    IF ~hole_sz.ok THEN hole_sz
    ELSE AlignmentTrack(idx, st, curr_offset, curr_size, byte_size_single,
                        hole_sz.val,
                        usize_add(st.sum_holes, hole_sz.val, overflow_checks))

\* the pass from the size-zero test on: such a member is passed over
AlignmentSized(idx, st, curr_offset, curr_size, byte_size_single, overflow_checks) ==
    IF ~byte_size_single.ok THEN byte_size_single
    ELSE IF curr_size = 0 \/ byte_size_single.val = 0 THEN Ok(st)
    ELSE AlignmentHole(idx, st, curr_offset, curr_size, byte_size_single.val,
                       HoleSize(st, curr_offset, overflow_checks),
                       overflow_checks)

\* the pass from `sum_member_size += curr_size` on: while prev_offset is 0
\* the member only seeds the trackers
AlignmentSummed(d, member, idx, st, curr_offset, curr_size, sum, overflow_checks) ==
    IF ~sum.ok THEN sum
    ELSE IF st.prev_offset = 0
    THEN Ok([st EXCEPT !.sum_member_size = sum.val,
                       !.prev_offset = curr_offset,
                       !.prev_size = curr_size])
    ELSE AlignmentSized(idx, [st EXCEPT !.sum_member_size = sum.val],
                        curr_offset, curr_size,
                        ByteSizeSingle(d, member, curr_size), overflow_checks)

\* the pass once the member's offset and size were asked for
AlignmentMember(d, member, idx, st, curr_offset, curr_size, overflow_checks) ==
    IF ~curr_offset.ok THEN curr_offset
    ELSE IF ~curr_size.ok THEN curr_size
    ELSE AlignmentSummed(d, member, idx, st, curr_offset.val, curr_size.val,
                         usize_add(st.sum_member_size, curr_size.val,
                                   overflow_checks),
                         overflow_checks)

\* one pass of the loop over the members: the trackers after member idx
AlignmentStep(d, member, idx, st, overflow_checks) ==
    AlignmentMember(d, member, idx, st, offset(d, member),
                    Member_byte_size(d, member), overflow_checks)

RECURSIVE AlignmentLoop(_, _, _, _, _)
\* the loop over the members from index idx on; an error ends it
AlignmentLoop(d, ms, idx, st, overflow_checks) ==
    IF ms = << >> \/ ~st.ok THEN st
    ELSE AlignmentLoop(d, Tail(ms), idx + 1,
                       AlignmentStep(d, Head(ms), idx, st.val,
                                     overflow_checks),
                       overflow_checks)

\* the result once the padding was computed
AlignmentResult(st, padding) ==
    IF ~padding.ok THEN padding
    ELSE Ok([nr_holes |-> st.nr_holes,
             sum_holes |-> st.sum_holes,
             hole_positions |-> st.hole_positions,
             padding |-> padding.val,
             sum_member_size |-> st.sum_member_size,
             nr_unnat_alignment |-> st.nr_unnat_alignment])

\* after the loop: the struct's size, then the padding
AlignmentEnd(st, size, overflow_checks) ==
    IF ~st.ok THEN st
    ELSE IF ~size.ok THEN size
    ELSE AlignmentResult(st.val,
                         HoleSize(st.val, size.val, overflow_checks))

\* the loop over the members that members() returned
AlignmentOver(d, self, ms, overflow_checks) ==
    IF ~ms.ok THEN ms
    ELSE AlignmentEnd(AlignmentLoop(d, ms.val, 0, Ok(AlignmentStart),
                                    overflow_checks),
                      byte_size(d, self), overflow_checks)

alignment_stats(d, self, overflow_checks) ==
    AlignmentOver(d, self, members(d, self), overflow_checks)

-----------------------------------------------------------------------------
(* Inputs of the type-graph operations.  Each input has a unit built for a *)
(* 32-bit target, holding one pointer, before the unit under study, built  *)
(* for a 64-bit target.                                                    *)

Unit32 ==
    [address_size |-> 4, parses |-> TRUE,
     entries |-> <<RootDie, Die("DW_TAG_pointer_type", 1)>>]

TypeInput(entries) ==
    [units |-> <<Unit32,
                 [address_size |-> 8, parses |-> TRUE, entries |-> entries]>>,
     debug_str |-> DebugStr, debug_line_str |-> << >>]

BaseType(size) == [Die("DW_TAG_base_type", 1) EXCEPT !.byte_size = size]

\* every handle of a Type variant that designates a DIE of its tag
TypeKinds ==
    {"Struct", "Array", "Enum", "Pointer", "Subroutine", "Typedef", "Union",
     "Base", "Const", "Volatile", "Restrict"}

TypeHandles(d) ==
    UNION { { Handle(T, loc) : T \in {K \in TypeKinds :
                                         tag(K) = EntryAt(d, loc).tag} } :
            loc \in Positions(d) }

\* the member handles members() yields for the structs and unions
MemberHandles(d) ==
    UNION { { ms.val[k] : k \in 1..Len(ms.val) } :
            ms \in { members(d, h) : h \in { x \in TypeHandles(d) :
                                       x.kind \in {"Struct", "Union"} } } }

\* type modifiers and pointers over int: the DIE at entry offset 2 is int,
\* the i-th modifier lies at entry offset 2 + i and refers to a DIE before it
ModTags ==
    {"DW_TAG_pointer_type", "DW_TAG_typedef", "DW_TAG_const_type",
     "DW_TAG_volatile_type", "DW_TAG_restrict_type"}

ModSizes == {Absent, Udata(2), Exprloc}

ModDies(i) ==
    { [Die(t, 1) EXCEPT !.byte_size = b, !.type = ty] :
        t \in ModTags, b \in ModSizes,
        ty \in {Absent} \cup { UnitRef(j) : j \in 2..(1 + i) } }

InitMods ==
    /\ \E n \in 0..MaxMods :
         \E ms \in [1..n -> ModDies(MaxMods)] :
            /\ \A i \in 1..n : ms[i] \in ModDies(i)
            /\ dwarf = TypeInput(<<RootDie, BaseType(Udata(4))>> \o ms)
    /\ op = "load"
    /\ arg = << >>
    /\ ret = << >>

\* a struct or union at entry offset 7 with up to MaxMembers members, behind
\* base types of size 4, of size 8 and without usable size, and a pointer
\* to the aggregate; a typedef of the aggregate follows the members
AggTags == {"DW_TAG_structure_type", "DW_TAG_union_type"}

AggSizes == {Absent, Udata(1), Udata(16), Exprloc}

AggMemberTypes == {Absent, UnitRef(2), UnitRef(3), UnitRef(4), UnitRef(6)}

AggPool ==
    <<RootDie, BaseType(Udata(4)), BaseType(Udata(8)), BaseType(Absent),
      BaseType(Exprloc),
      [Die("DW_TAG_pointer_type", 1) EXCEPT !.type = UnitRef(7)]>>

AggMember(t, k, ty) ==
    [Die("DW_TAG_member", 2) EXCEPT
        !.type = ty,
        !.data_member_location =
            IF t = "DW_TAG_union_type" THEN Absent ELSE Udata(8 * (k - 1))]

InitAgg ==
    /\ \E t \in AggTags, b \in AggSizes, n \in 0..MaxMembers :
         \E tys \in [1..n -> AggMemberTypes] :
            dwarf = TypeInput(
                AggPool
                \o <<[Die(t, 1) EXCEPT !.byte_size = b]>>
                \o [k \in 1..n |-> AggMember(t, k, tys[k])]
                \o <<[Die("DW_TAG_typedef", 1) EXCEPT !.type = UnitRef(7)]>>)
    /\ op = "load"
    /\ arg = << >>
    /\ ret = << >>

\* an array at entry offset 4 with up to MaxSubranges subrange children,
\* behind int and a base type without size; a typedef of the array follows
ArraySizes == {Absent, Udata(3), Exprloc}

ArrayTypes == {Absent, UnitRef(2), UnitRef(3)}

SubrangeDies ==
    { [Die("DW_TAG_subrange_type", 2) EXCEPT !.upper_bound = ub,
                                               !.count = c] :
        ub \in {Absent, Udata(2), Exprloc, OtherForm},
        c \in {Absent, Udata(5), LocList} }

InitArray ==
    /\ \E b \in ArraySizes, ty \in ArrayTypes, n \in 0..MaxSubranges :
         \E subs \in [1..n -> SubrangeDies] :
            dwarf = TypeInput(
                <<RootDie, BaseType(Udata(4)), BaseType(Absent)>>
                \o <<[Die("DW_TAG_array_type", 1) EXCEPT !.byte_size = b,
                                                         !.type = ty]>>
                \o subs
                \o <<[Die("DW_TAG_typedef", 1) EXCEPT !.type = UnitRef(4)]>>)
    /\ op = "load"
    /\ arg = << >>
    /\ ret = << >>

\* a struct at entry offset 5 with up to MaxMembers members of type unsigned
\* int (4 bytes), unsigned long long (8 bytes) or int[] (a flexible array)
StructPool ==
    <<RootDie, BaseType(Udata(4)), BaseType(Udata(8)),
      [Die("DW_TAG_array_type", 1) EXCEPT !.type = UnitRef(2)]>>

StructSizes == {8, 12, 16, 24}

FieldTypes == {UnitRef(2), UnitRef(3), UnitRef(4)}

FieldOffsets == {Absent, Udata(0), Udata(4), Udata(8), Udata(12), Udata(16)}

MemberForms ==
    {Absent, Exprloc, LocList, OtherForm, Udata(0), Udata(4), Udata(8)}

StructInput(size, ms) ==
    TypeInput(StructPool
              \o <<[Die("DW_TAG_structure_type", 1) EXCEPT
                       !.name = NameString("foo"), !.byte_size = Udata(size)]>>
              \o ms)

Field(ty, loc) ==
    [Die("DW_TAG_member", 2) EXCEPT !.type = ty, !.data_member_location = loc]

InitStruct ==
    /\ \E size \in StructSizes, n \in 0..MaxMembers :
         \E tys \in [1..n -> FieldTypes], locs \in [1..n -> FieldOffsets] :
            dwarf = StructInput(size, [k \in 1..n |-> Field(tys[k], locs[k])])
    /\ op = "load"
    /\ arg = << >>
    /\ ret = << >>

InitMember ==
    /\ \E size \in StructSizes, n \in 0..MaxMembers :
         \E locs \in [1..n -> MemberForms] :
            dwarf = StructInput(size,
                        [k \in 1..n |-> Field(UnitRef(2), locs[k])])
    /\ op = "load"
    /\ arg = << >>
    /\ ret = << >>

-----------------------------------------------------------------------------
(* The type-graph operations.                                              *)

ByteSize ==
    \E typ \in TypeHandles(dwarf) :
        /\ op' = "byte_size"
        /\ arg' = typ
        /\ ret' = byte_size(dwarf, typ)
        /\ UNCHANGED dwarf

MemberOffset ==
    \E member \in MemberHandles(dwarf) :
        /\ op' = "offset"
        /\ arg' = member
        /\ ret' = offset(dwarf, member)
        /\ UNCHANGED dwarf

AlignmentStats ==
    \E self \in { h \in TypeHandles(dwarf) : h.kind = "Struct" },
       overflow_checks \in BOOLEAN :
        /\ op' = "alignment_stats"
        /\ arg' = [self |-> self, overflow_checks |-> overflow_checks]
        /\ ret' = alignment_stats(dwarf, self, overflow_checks)
        /\ UNCHANGED dwarf

SpecMods == InitMods /\ [][ByteSize]_vars

SpecAgg == InitAgg /\ [][ByteSize]_vars

SpecArray == InitArray /\ [][ByteSize]_vars

SpecStruct == InitStruct /\ [][AlignmentStats]_vars

NextMember == MemberOffset \/ ByteSize

SpecMember == InitMember /\ [][NextMember]_vars

-----------------------------------------------------------------------------
(* Claims about byte_size.                                                 *)

\* the DIE of the handle the last operation was called on
SelfEntry == EntryAt(dwarf, arg.location)

\* the elements of a sequence
Range(seq) == { seq[k] : k \in 1..Len(seq) }

\* C3: byte_size of a Struct or Base handle is the value of the DIE's
\* DW_AT_byte_size when the attribute is present, and the
\* byte-size-not-found error when it is absent; it is never derived from
\* members or inner types.
C3_StructBaseSizeIsAttribute ==
    (op = "byte_size" /\ arg.kind \in {"Struct", "Base"}) =>
        /\ SelfEntry.byte_size.form = "udata" =>
               IsOkVal(ret, SelfEntry.byte_size.val)
        /\ SelfEntry.byte_size.form = "absent" =>
               IsErr(ret, "ByteSizeAttributeNotFound")
        /\ SelfEntry.byte_size.form # "udata" => ~ret.ok

\* byte_size of a struct without DW_AT_byte_size all of whose members, and
\* there are some, have a size
C3_Witness ==
    /\ op = "byte_size"
    /\ arg.kind = "Struct"
    /\ SelfEntry.byte_size.form = "absent"
    /\ members(dwarf, arg).val # << >>
    /\ \A m \in Range(members(dwarf, arg).val) :
           Member_byte_size(dwarf, m).ok
    /\ IsErr(ret, "ByteSizeAttributeNotFound")

\* C4: byte_size of a Pointer handle is the address_size of the compile unit
\* that contains the pointer DIE, whatever DW_AT_byte_size the DIE carries
\* and whether or not it has an inner type.
C4_PointerSizeIsAddressSize ==
    (op = "byte_size" /\ arg.kind = "Pointer") =>
        IsOkVal(ret, dwarf.units[arg.location.die_offset].address_size)

\* byte_size of a pointer of the 64-bit unit that carries DW_AT_byte_size 2
\* and no DW_AT_type
C4_Witness ==
    /\ op = "byte_size"
    /\ arg.kind = "Pointer"
    /\ SelfEntry.byte_size = Udata(2)
    /\ SelfEntry.type = Absent
    /\ dwarf.units[arg.location.die_offset].address_size = 8
    /\ IsOkVal(ret, 8)

\* the size of the type DW_AT_type refers to
InnerTypeSize(d, self) ==
    IF get_type(d, self).ok THEN byte_size(d, get_type(d, self).val)
    ELSE get_type(d, self)

\* C5: byte_size of a Typedef, Const, Volatile or Restrict handle is the
\* DIE's own DW_AT_byte_size when the attribute is present, and the size of
\* the inner type only when it is absent.
C5_ModifierOwnSizeFirst ==
    (op = "byte_size"
        /\ arg.kind \in {"Typedef", "Const", "Volatile", "Restrict"}) =>
        /\ SelfEntry.byte_size.form = "udata" =>
               IsOkVal(ret, SelfEntry.byte_size.val)
        /\ SelfEntry.byte_size.form = "absent" =>
               ret = InnerTypeSize(dwarf, arg)

\* the direct children of the DIE at a position: the DIEs one level deeper
\* that follow it with nothing of its own depth or above in between
Children(d, loc) ==
    { c \in Positions(d) :
        /\ c.die_offset = loc.die_offset
        /\ c.entry_offset > loc.entry_offset
        /\ EntryAt(d, c).depth = EntryAt(d, loc).depth + 1
        /\ \A k \in (loc.entry_offset + 1)..c.entry_offset :
               Unit(d, loc).entries[k].depth > EntryAt(d, loc).depth }

\* the sizes of the DW_TAG_member children of the DIE at a position
MemberSizes(d, loc) ==
    { Member_byte_size(d, Handle("Member", c)) :
        c \in { x \in Children(d, loc) :
                  EntryAt(d, x).tag = "DW_TAG_member" } }

\* the largest number of a set, 0 for the empty set
SetMax(S) == IF S = {} THEN 0 ELSE CHOOSE x \in S : \A y \in S : y <= x

Subranges(d, loc) ==
    LET subs == { c \in Children(d, loc) :
                    EntryAt(d, c).tag = "DW_TAG_subrange_type" }
    IN  [k \in 1..Cardinality(subs) |->
            EntryAt(d, CHOOSE c \in subs :
                Cardinality({ x \in subs : Before(x, c) }) = k - 1)]

\* the bound the subrange child states: upper_bound + 1, or count, or 0
\* when it carries neither or there is no subrange child
StatedBound(d, loc) ==
    IF Subranges(d, loc) = << >> THEN 0
    ELSE LET sub == Subranges(d, loc)[1]
         IN  IF sub.upper_bound.form = "udata" THEN sub.upper_bound.val + 1
             ELSE IF sub.count.form = "udata" THEN sub.count.val
             ELSE 0

\* C7: byte_size of an Array handle is DW_AT_byte_size when present;
\* otherwise it is entry_size * bound, where entry_size is the inner type's
\* size and bound is upper_bound + 1 when the subrange child carries
\* DW_AT_upper_bound, count when it carries DW_AT_count, and 0 when it
\* carries neither or there is no subrange child.
C7_ArraySizeIsOwnOrEntryTimesBound ==
    (op = "byte_size" /\ arg.kind = "Array") =>
        /\ SelfEntry.byte_size.form = "udata" =>
               IsOkVal(ret, SelfEntry.byte_size.val)
        /\ (/\ SelfEntry.byte_size.form = "absent"
            /\ InnerTypeSize(dwarf, arg).ok
            /\ \A k \in 1..Len(Subranges(dwarf, arg.location)) :
                  LET sub == Subranges(dwarf, arg.location)[k]
                  IN  /\ sub.upper_bound.form \in {"absent", "udata"}
                      /\ sub.count.form \in {"absent", "udata"}) =>
               IsOkVal(ret, InnerTypeSize(dwarf, arg).val
                                * StatedBound(dwarf, arg.location))

-----------------------------------------------------------------------------
(* Claims about Member::offset.                                            *)

\* C8: Member::offset is the value of DW_AT_data_member_location when it is
\* a constant; it is the Unimplemented error when the attribute has an
\* exprloc or loclist form and the member-location-not-found error when the
\* attribute is absent, and never a number in those two cases.
C8_MemberOffsetByForm ==
    op = "offset" =>
        /\ SelfEntry.data_member_location.form = "udata" =>
               IsOkVal(ret, SelfEntry.data_member_location.val)
        /\ SelfEntry.data_member_location.form \in {"exprloc", "loclist"} =>
               IsErr(ret, "UnimplementedError")
        /\ SelfEntry.data_member_location.form = "absent" =>
               IsErr(ret, "MemberLocationAttributeNotFound")

\* offset of the second member of a struct whose first member is at a
\* constant offset, the second having an exprloc location
C8_Witness ==
    /\ op = "offset"
    /\ arg.location.entry_offset = 7
    /\ EntryAt(dwarf, DwarfUnit(2, 6)).data_member_location = Udata(0)
    /\ SelfEntry.data_member_location = Exprloc
    /\ IsErr(ret, "UnimplementedError")

-----------------------------------------------------------------------------
(* Claims about Struct::alignment_stats.                                   *)

\* the members of the struct alignment_stats was called on
StatMembers == members(dwarf, arg.self).val

\* offset, size and end of the k-th member (k from 1)
StatOffset(k) == offset(dwarf, StatMembers[k]).val

StatSize(k) == Member_byte_size(dwarf, StatMembers[k]).val

StatEnd(k) == StatOffset(k) + StatSize(k)

\* the struct of the last call has members with offsets and sizes, at
\* strictly increasing offsets from 0 on, none reaching into the next or
\* beyond the end of the struct, each at a multiple of its size
WellLaidOut ==
    /\ StatMembers # << >>
    /\ \A k \in 1..Len(StatMembers) :
          /\ offset(dwarf, StatMembers[k]).ok
          /\ Member_byte_size(dwarf, StatMembers[k]).ok
          /\ StatSize(k) > 0
          /\ StatOffset(k) % StatSize(k) = 0
    /\ StatOffset(1) = 0
    /\ \A k \in 2..Len(StatMembers) :
          /\ StatOffset(k - 1) < StatOffset(k)
          /\ StatEnd(k - 1) <= StatOffset(k)
    /\ StatEnd(Len(StatMembers)) <= byte_size(dwarf, arg.self).val

\* the members that lie behind a gap
Gaps == { k \in 2..Len(StatMembers) : StatEnd(k - 1) < StatOffset(k) }

\* struct padded { unsigned int ui; unsigned long long ull; }
Padded ==
    StructInput(16, <<Field(UnitRef(2), Udata(0)),
                      Field(UnitRef(3), Udata(8))>>)

\* C9: alignment_stats reports every gap between consecutive members: for
\* members at strictly increasing offsets, every member i >= 1 of nonzero
\* size that starts behind the end of member i - 1 is counted in nr_holes
\* and listed in hole_positions as (i, gap); only the first member seeds the
\* trackers.  For struct padded the result is nr_holes 1, hole_positions
\* [(1, 4)], padding 0.
C9_EveryGapReported ==
    (op = "alignment_stats" /\ ret.ok) =>
        /\ WellLaidOut =>
              /\ ret.val.nr_holes = Cardinality(Gaps)
              /\ \A k \in Gaps :
                    <<k - 1, StatOffset(k) - StatEnd(k - 1)>>
                        \in Range(ret.val.hole_positions)
        /\ dwarf = Padded =>
              /\ ret.val.nr_holes = 1
              /\ ret.val.hole_positions = << <<1, 4>> >>
              /\ ret.val.padding = 0

\* C10: for a struct that is not packed and whose members have strictly
\* increasing offsets, the result of alignment_stats satisfies
\* sum_member_size + sum_holes + padding = byte_size of the struct.
C10_SizesHolesPaddingAddUp ==
    (op = "alignment_stats" /\ ret.ok /\ WellLaidOut) =>
        ret.val.sum_member_size + ret.val.sum_holes + ret.val.padding
            = byte_size(dwarf, arg.self).val

-----------------------------------------------------------------------------
(* The name indexes.                                                       *)

\* HashMap::new
EmptyMap == [k \in {} |-> 0]

\* HashMap::insert: the value of a key already present is replaced
Insert(map, k, v) ==
    [x \in (DOMAIN map) \cup {k} |-> IF x = k THEN v ELSE map[x]]

\* the callback of get_named_types_map on one DIE: the map after it
NamedMapVisit(d, T, map, loc) ==
    IF EntryAt(d, loc).declaration THEN map
    ELSE IF get_entry_name(d, EntryAt(d, loc)).ok
    THEN Insert(map, get_entry_name(d, EntryAt(d, loc)).val, Handle(T, loc))
    ELSE map

RECURSIVE NamedMapFold(_, _, _, _)
\* the callback over the DIEs of the scan not yet visited
NamedMapFold(d, T, locs, map) ==
    IF locs = << >> THEN map
    ELSE NamedMapFold(d, T, Tail(locs), NamedMapVisit(d, T, map, Head(locs)))

\* a faulty variant: the first DIE of a name keeps its entry
NamedMapVisitFirst(d, T, map, loc) ==
    IF EntryAt(d, loc).declaration THEN map
    ELSE IF get_entry_name(d, EntryAt(d, loc)).ok
            /\ get_entry_name(d, EntryAt(d, loc)).val \notin DOMAIN map
    THEN Insert(map, get_entry_name(d, EntryAt(d, loc)).val, Handle(T, loc))
    ELSE map

RECURSIVE NamedMapFoldFirst(_, _, _, _)
NamedMapFoldFirst(d, T, locs, map) ==
    IF locs = << >> THEN map
    ELSE NamedMapFoldFirst(d, T, Tail(locs),
                           NamedMapVisitFirst(d, T, map, Head(locs)))

get_named_types_map_first(d, T) ==
    Ok(NamedMapFoldFirst(d, T, for_each_tagged_entry(d, T), EmptyMap))

get_named_types_map(d, T) ==
    Ok(NamedMapFold(d, T, for_each_tagged_entry(d, T), EmptyMap))

\* the DIEs of the scan whose name decodes
NamedHits(d, T) ==
    SelectSeq(for_each_tagged_entry(d, T),
              LAMBDA loc : get_entry_name(d, EntryAt(d, loc)).ok)

\* a faulty variant: the entries last first
get_named_types_reversed(d, T) ==
    Ok(Reversed([k \in 1..Len(NamedHits(d, T)) |->
          <<get_entry_name(d, EntryAt(d, NamedHits(d, T)[k])).val,
            Handle(T, NamedHits(d, T)[k])>>]))

get_named_types(d, T) ==
    Ok([k \in 1..Len(NamedHits(d, T)) |->
          <<get_entry_name(d, EntryAt(d, NamedHits(d, T)[k])).val,
            Handle(T, NamedHits(d, T)[k])>>])

GetNamedTypesMap ==
    \E T \in ScanKinds :
        /\ op' = "get_named_types_map"
        /\ arg' = [T |-> T]
        /\ ret' = get_named_types_map(dwarf, T)
        /\ UNCHANGED dwarf

GetNamedTypes ==
    \E T \in ScanKinds :
        /\ op' = "get_named_types"
        /\ arg' = [T |-> T]
        /\ ret' = get_named_types(dwarf, T)
        /\ UNCHANGED dwarf

NextIndex == GetNamedTypesMap \/ GetNamedTypes

SpecIndex == InitScan /\ [][NextIndex]_vars

-----------------------------------------------------------------------------
(* Claims about the name indexes.                                          *)

\* the positions of the DIEs of the tag of T whose name decodes
Named(d, T) ==
    { loc \in Positions(d) :
        /\ EntryAt(d, loc).tag = tag(T)
        /\ get_entry_name(d, EntryAt(d, loc)).ok }

\* the positions of the DIEs of the tag of T that carry the name and are
\* not declarations
Defining(d, T, name) ==
    { loc \in Positions(d) :
        Carries(d, loc, T, name) /\ ~EntryAt(d, loc).declaration }

\* the names the DIEs of the debug info carry
NamesOf(d) ==
    { get_entry_name(d, EntryAt(d, loc)).val :
        loc \in { l \in Positions(d) : get_entry_name(d, EntryAt(d, l)).ok } }

\* the last position of a set in scan order
LastOf(S) == CHOOSE l \in S : \A o \in S : ~Before(l, o)

\* C13: get_named_types_map::<T> maps each name to the handle of the last
\* DIE in scan order among the non-declaration DIEs of tag T carrying the
\* name, and has no key for a name only declarations carry.
C13_NamedMapLastWins ==
    op = "get_named_types_map" =>
        /\ ret.ok
        /\ DOMAIN ret.val =
               { name \in NamesOf(dwarf) : Defining(dwarf, arg.T, name) # {} }
        /\ \A name \in DOMAIN ret.val :
               ret.val[name] =
                   Handle(arg.T, LastOf(Defining(dwarf, arg.T, name)))

\* the map of an input in which one name is defined in both units and then
\* declared, and another name is only declared
C13_Witness ==
    /\ op = "get_named_types_map"
    /\ \E name \in DOMAIN ret.val :
          /\ Cardinality({ loc.die_offset :
                             loc \in Defining(dwarf, arg.T, name) }) = 2
          /\ ret.val[name].location.die_offset = 2
    /\ \E loc \in Named(dwarf, arg.T) :
          /\ EntryAt(dwarf, loc).declaration
          /\ get_entry_name(dwarf, EntryAt(dwarf, loc)).val
                 \notin DOMAIN ret.val

\* C14: get_named_types::<T> returns one (name, handle) entry per named DIE
\* of tag T, duplicates of a name included, in scan order: units in section
\* order and depth-first order within a unit; the list is a function of the
\* debug info, so two runs return the same list.
C14_NamedListInScanOrder ==
    op = "get_named_types" =>
        /\ ret.ok
        /\ Len(ret.val) = Cardinality(Named(dwarf, arg.T))
        /\ \A k \in 1..Len(ret.val) :
              /\ ret.val[k][2].kind = arg.T
              /\ ret.val[k][2].location \in Named(dwarf, arg.T)
              /\ ret.val[k][1] =
                     get_entry_name(dwarf,
                         EntryAt(dwarf, ret.val[k][2].location)).val
        /\ \A j \in 1..Len(ret.val), k \in 1..Len(ret.val) :
              j < k => Before(ret.val[j][2].location, ret.val[k][2].location)

\* the list of an input in which a name occurs in both units, with three
\* entries
C14_Witness ==
    /\ op = "get_named_types"
    /\ Len(ret.val) = 3
    /\ ret.val[1][1] = ret.val[3][1]
    /\ ret.val[1][1] # ret.val[2][1]
    /\ ret.val[1][2].location.die_offset < ret.val[3][2].location.die_offset

\* C15: for every name with exactly one defining (non-declaration) DIE of
\* tag T, the list of get_named_types::<T> has a single entry with that
\* name, and get_named_types_map::<T> stores that entry's handle under the
\* name.
C15_ListAndMapAgree ==
    op = "get_named_types" =>
        \A name \in NamesOf(dwarf) :
            Cardinality(Defining(dwarf, arg.T, name)) = 1 =>
                /\ Cardinality({ k \in 1..Len(ret.val) :
                                   ret.val[k][1] = name }) = 1
                /\ \A k \in 1..Len(ret.val) :
                      ret.val[k][1] = name =>
                          get_named_types_map(dwarf, arg.T).val[name]
                              = ret.val[k][2]

-----------------------------------------------------------------------------
(* The fine-grained struct index.                                          *)

\* StructHashKey: the name, the size and the (name, offset) pairs of the
\* members
StructHashKey(name, size, ms) ==
    [name |-> name, byte_size |-> size, members |-> ms]

RECURSIVE MemberKeys(_, _, _)
\* the (name, offset) pair of each member, a member without a name having
\* the empty name; the first offset that is an error ends the collection
MemberKeys(d, unit, ms) ==
    IF ms = << >> THEN Ok(<< >>)
    ELSE IF ~u_member_location(unit, Head(ms)).ok
    THEN u_member_location(unit, Head(ms))
    ELSE IF ~MemberKeys(d, unit, Tail(ms)).ok
    THEN MemberKeys(d, unit, Tail(ms))
    ELSE Ok(<<<<IF get_entry_name(d, EntryAt(d, Head(ms).location)).ok
                THEN get_entry_name(d, EntryAt(d, Head(ms).location)).val
                ELSE "",
                u_member_location(unit, Head(ms)).val>>>>
            \o MemberKeys(d, unit, Tail(ms)).val)

\* the key of the struct at a position, or the error of its size, of its
\* member list or of a member's offset
FgKey(d, loc) ==
    IF ~Struct_u_byte_size(Unit(d, loc), Handle("Struct", loc)).ok
    THEN Struct_u_byte_size(Unit(d, loc), Handle("Struct", loc))
    ELSE IF ~u_members(Unit(d, loc), Handle("Struct", loc)).ok
    THEN u_members(Unit(d, loc), Handle("Struct", loc))
    ELSE IF ~MemberKeys(d, Unit(d, loc),
                        u_members(Unit(d, loc), Handle("Struct", loc)).val).ok
    THEN MemberKeys(d, Unit(d, loc),
                    u_members(Unit(d, loc), Handle("Struct", loc)).val)
    ELSE Ok(StructHashKey(
                get_entry_name(d, EntryAt(d, loc)).val,
                Struct_u_byte_size(Unit(d, loc), Handle("Struct", loc)).val,
                MemberKeys(d, Unit(d, loc),
                    u_members(Unit(d, loc), Handle("Struct", loc)).val).val))

RECURSIVE FgFold(_, _, _)
\* the callback over the struct DIEs in scan order: a declaration and a DIE
\* without a name are passed over, an error of the callback ends the scan
\* with the map as it stands
FgFold(d, locs, map) ==
    IF locs = << >> THEN map
    ELSE IF EntryAt(d, Head(locs)).declaration
            \/ ~get_entry_name(d, EntryAt(d, Head(locs))).ok
    THEN FgFold(d, Tail(locs), map)
    ELSE IF ~FgKey(d, Head(locs)).ok THEN map
    ELSE FgFold(d, Tail(locs),
                Insert(map, FgKey(d, Head(locs)).val,
                       Handle("Struct", Head(locs))))

\* the error of the scan is dropped and the map returned
get_fg_named_structs_map(d) ==
    Ok(FgFold(d, for_each_tagged_entry(d, "Struct"), EmptyMap))

\* the most structs of a unit of the inputs
MaxStructs == 2

IntMember(name, loc) ==
    [Field(UnitRef(2), loc) EXCEPT !.name = NameString(name)]

SizedStruct(name, size) ==
    [Die("DW_TAG_structure_type", 1) EXCEPT
        !.name = name, !.byte_size = Udata(size)]

\* the struct definitions of the inputs: struct foo in four layouts (one
\* with a bit-field b, which has no DW_AT_data_member_location), a forward
\* declaration of foo, struct bar and a struct without a name
FgShapes ==
    { <<SizedStruct(NameString("foo"), 8),
        IntMember("a", Udata(0)), IntMember("b", Udata(4))>>,
      <<SizedStruct(NameString("foo"), 8),
        IntMember("a", Udata(0)), IntMember("c", Udata(4))>>,
      <<SizedStruct(NameString("foo"), 12),
        IntMember("a", Udata(0)), IntMember("b", Udata(4)),
        IntMember("c", Udata(8))>>,
      <<SizedStruct(NameString("foo"), 8),
        IntMember("a", Udata(0)), IntMember("b", Absent)>>,
      <<[Die("DW_TAG_structure_type", 1) EXCEPT
            !.name = NameString("foo"), !.declaration = TRUE]>>,
      <<SizedStruct(NameString("bar"), 8),
        IntMember("a", Udata(0)), IntMember("b", Udata(4))>>,
      <<SizedStruct(NoName, 4), IntMember("a", Udata(0))>> }

RECURSIVE Flatten(_)
Flatten(ss) == IF ss = << >> THEN << >> ELSE Head(ss) \o Flatten(Tail(ss))

\* a compile unit with int at entry offset 2 and the structs after it
FgUnit(ss) ==
    [address_size |-> 8, parses |-> TRUE,
     entries |-> <<RootDie, [BaseType(Udata(4)) EXCEPT
                                !.name = NameString("int")]>>
                 \o Flatten(ss)]

InitFg ==
    /\ \E n1 \in 0..MaxStructs, n2 \in 0..MaxStructs :
         \E s1 \in [1..n1 -> FgShapes], s2 \in [1..n2 -> FgShapes] :
            dwarf = [units |-> <<FgUnit(s1), FgUnit(s2)>>,
                     debug_str |-> DebugStr, debug_line_str |-> << >>]
    /\ op = "load"
    /\ arg = << >>
    /\ ret = << >>

GetFgNamedStructsMap ==
    /\ op' = "get_fg_named_structs_map"
    /\ arg' = << >>
    /\ ret' = get_fg_named_structs_map(dwarf)
    /\ UNCHANGED dwarf

\* dump --fast reads the name index of the structs
GetNamedStructsMap ==
    /\ op' = "get_named_types_map"
    /\ arg' = [T |-> "Struct"]
    /\ ret' = get_named_types_map(dwarf, "Struct")
    /\ UNCHANGED dwarf

NextFg == GetFgNamedStructsMap \/ GetNamedStructsMap

SpecFg == InitFg /\ [][NextFg]_vars

-----------------------------------------------------------------------------
(* Claims about the fine-grained struct index.                             *)

\* the positions of a set in scan order
Ordered(S) ==
    [k \in 1..Cardinality(S) |->
        CHOOSE c \in S : Cardinality({ x \in S : Before(x, c) }) = k - 1]

\* the DW_TAG_member children of the DIE at a position, in source order
MemberChildren(d, loc) ==
    Ordered({ c \in Children(d, loc) : EntryAt(d, c).tag = "DW_TAG_member" })

\* the shape of the struct at a position: its name, its DW_AT_byte_size and
\* the (name, offset) pair of each member child in source order, an absent
\* name counting as the empty name and an absent offset as 0
Shape(d, loc) ==
    StructHashKey(
        get_entry_name(d, EntryAt(d, loc)).val,
        EntryAt(d, loc).byte_size.val,
        [k \in 1..Len(MemberChildren(d, loc)) |->
            LET m == EntryAt(d, MemberChildren(d, loc)[k])
            IN  <<IF get_entry_name(d, m).ok
                  THEN get_entry_name(d, m).val ELSE "",
                  IF m.data_member_location.form = "udata"
                  THEN m.data_member_location.val ELSE 0>>])

\* the named struct DIEs that are not declarations
DefinedStructs(d) ==
    { loc \in Named(d, "Struct") : ~EntryAt(d, loc).declaration }

\* C11: when struct foo has two defining DIEs, one in each compile unit,
\* of different shape (name, byte_size, ordered (member name, member offset)
\* list), get_fg_named_structs_map has exactly two keys named foo, one for
\* each of the two DIEs, while get_named_types_map::<Struct> has the single
\* key foo.
C11_FgMapKeepsShapesApart ==
    op = "get_fg_named_structs_map" =>
        \A a \in Defining(dwarf, "Struct", "foo") :
        \A b \in Defining(dwarf, "Struct", "foo") :
            /\ Defining(dwarf, "Struct", "foo") = {a, b}
            /\ a.die_offset # b.die_offset
            /\ Shape(dwarf, a) # Shape(dwarf, b)
            => /\ { k \in DOMAIN ret.val : k.name = "foo" }
                      = {Shape(dwarf, a), Shape(dwarf, b)}
               /\ ret.val[Shape(dwarf, a)] = Handle("Struct", a)
               /\ ret.val[Shape(dwarf, b)] = Handle("Struct", b)
               /\ "foo" \in DOMAIN get_named_types_map(dwarf, "Struct").val

\* C12: every named struct DIE that is not a declaration has its key (an
\* absent member offset counting as 0) among the keys of the map
\* get_fg_named_structs_map returns, wherever it lies in the scan.
C12_FgMapCoversEveryStruct ==
    op = "get_fg_named_structs_map" =>
        /\ ret.ok
        /\ \A loc \in DefinedStructs(dwarf) :
               Shape(dwarf, loc) \in DOMAIN ret.val

-----------------------------------------------------------------------------
(* Member lists of nested DIE trees.                                       *)

\* the most DIEs below the root of a unit of the inputs
MaxNest == 4

NestTags == {"DW_TAG_structure_type", "DW_TAG_member", "DW_TAG_typedef"}

\* the DIE sequences that are the depth-first order of a tree: the first DIE
\* is a child of the root, only a struct has children, and a member is the
\* child of a struct
IsTree(ts, ds) ==
    /\ Len(ts) > 0 => ds[1] = 1
    /\ \A k \in 1..Len(ts) : ts[k] = "DW_TAG_member" => ds[k] > 1
    /\ \A k \in 1..(Len(ts) - 1) :
          /\ ds[k + 1] <= ds[k] + 1
          /\ ds[k + 1] = ds[k] + 1 => ts[k] = "DW_TAG_structure_type"

InitNest ==
    /\ \E n \in 1..MaxNest :
         \E ts \in [1..n -> NestTags], ds \in [1..n -> 1..3] :
            /\ IsTree(ts, ds)
            /\ dwarf = TypeInput(<<RootDie>>
                                 \o [k \in 1..n |-> Die(ts[k], ds[k])])
    /\ op = "load"
    /\ arg = << >>
    /\ ret = << >>

Members ==
    \E self \in { h \in TypeHandles(dwarf) : h.kind = "Struct" } :
        /\ op' = "members"
        /\ arg' = self
        /\ ret' = members(dwarf, self)
        /\ UNCHANGED dwarf

SpecNest == InitNest /\ [][Members]_vars

\* C20: members() on a struct returns exactly the direct children of its
\* DIE that have tag DW_TAG_member, in source order: no member child is
\* left out and no DIE that is not a direct child is returned.
C20_MembersAreTheMemberChildren ==
    op = "members" =>
        /\ ret.ok
        /\ ret.val = [k \in 1..Len(MemberChildren(dwarf, arg.location)) |->
                         Handle("Member",
                                MemberChildren(dwarf, arg.location)[k])]

-----------------------------------------------------------------------------
(* unit_context and entry_context of the reader.                           *)

\* what a call comes to: the value it returns and the number of calls of
\* the closure f; a call that panics returns nothing
Returned(result, calls) ==
    [panicked |-> FALSE, result |-> result, calls |-> calls]

Panicked == [panicked |-> TRUE, result |-> Err("panic"), calls |-> 0]

\* a closure that reads one field of what it is given
Call(f, x) == x[f]

\* unit_context: the header is looked up anew from the header offset, and
\* the unit built from it with unwrap()
unit_context(d, unit_pos, f) ==
    IF ~(unit_pos.die_offset \in 1..Len(d.units))
    THEN Returned(Err("CUError"), 0)
    ELSE IF ~d.units[unit_pos.die_offset].parses THEN Panicked
    ELSE Returned(Ok(Call(f, d.units[unit_pos.die_offset])), 1)

\* entry_context: unit_context with a closure that resolves the entry and
\* then calls f
entry_context(d, unit_pos, f) ==
    IF ~(unit_pos.die_offset \in 1..Len(d.units))
    THEN Returned(Err("CUError"), 0)
    ELSE IF ~d.units[unit_pos.die_offset].parses THEN Panicked
    ELSE IF ~EntryResolves(d.units[unit_pos.die_offset], unit_pos.entry_offset)
    THEN Returned(Err("DIEError"), 0)
    ELSE Returned(Ok(Call(f, d.units[unit_pos.die_offset]
                                 .entries[unit_pos.entry_offset])), 1)

\* two units of up to two DIEs each; the abbreviations of a unit may fail
\* to parse although its header is sound
ContextUnits ==
    { [address_size |-> a, parses |-> p, entries |-> es] :
        a \in {4, 8}, p \in BOOLEAN,
        es \in { <<RootDie>>,
                 <<RootDie, Die("DW_TAG_structure_type", 1)>> } }

InitContext ==
    /\ \E u1 \in ContextUnits, u2 \in ContextUnits :
          dwarf = [units |-> <<u1, u2>>, debug_str |-> DebugStr,
                   debug_line_str |-> << >>]
    /\ op = "load"
    /\ arg = << >>
    /\ ret = << >>

\* the positions handles may hold, those of another reader included
ContextPositions(d) ==
    { DwarfUnit(u, i) : u \in 0..(Len(d.units) + 1), i \in 0..MaxDies }

UnitContext ==
    \E unit_pos \in ContextPositions(dwarf), f \in {"address_size", "entries"} :
        /\ op' = "unit_context"
        /\ arg' = [unit_pos |-> unit_pos, f |-> f]
        /\ ret' = unit_context(dwarf, unit_pos, f)
        /\ UNCHANGED dwarf

EntryContext ==
    \E unit_pos \in ContextPositions(dwarf), f \in {"tag", "depth"} :
        /\ op' = "entry_context"
        /\ arg' = [unit_pos |-> unit_pos, f |-> f]
        /\ ret' = entry_context(dwarf, unit_pos, f)
        /\ UNCHANGED dwarf

NextContext == UnitContext \/ EntryContext

SpecContext == InitContext /\ [][NextContext]_vars

\* C17: unit_context and entry_context return the CU error without calling
\* f when the header offset designates no unit header, entry_context returns
\* the DIE error without calling f when the unit is found but no DIE
\* resolves at the entry offset, and in every other case f is called exactly
\* once with the resolved unit or DIE and its result returned.
C17_ContextCallsOnceOrFails ==
    op \in {"unit_context", "entry_context"} =>
        IF ~HeaderResolves(dwarf, arg.unit_pos)
        THEN ret = Returned(Err("CUError"), 0)
        ELSE IF /\ op = "entry_context"
                /\ Unit(dwarf, arg.unit_pos).parses
                /\ ~EntryResolves(Unit(dwarf, arg.unit_pos),
                                  arg.unit_pos.entry_offset)
        THEN ret = Returned(Err("DIEError"), 0)
        ELSE /\ ~ret.panicked
             /\ ret.calls = 1
             /\ ret.result.ok
             /\ op = "unit_context" =>
                    ret.result.val = Unit(dwarf, arg.unit_pos)[arg.f]
             /\ op = "entry_context" =>
                    ret.result.val = EntryAt(dwarf, arg.unit_pos)[arg.f]

-----------------------------------------------------------------------------
(* The command line.                                                       *)

\* the end of the process: its exit code and the lines on standard output
Exit(code, stdout) == [exit_code |-> code, stdout |-> stdout]

\* the line println! writes for a struct: to_string_verbose of the handle
Printed(struc, verbosity) == [struct |-> struc, verbosity |-> verbosity]

\* the struct handles that are the values of a map
Values(map) == { map[k] : k \in DOMAIN map }

\* main: a `?` on an error makes main return Err, which ends the process
\* with exit code 1
main(file, cmd) ==
    IF ~file.exists THEN Exit(1, {})
    ELSE IF ~file.object THEN Exit(1, {})
    ELSE IF cmd.command = "lookup"
    THEN IF lookup_type(file.data, "Struct", cmd.name).val.some
         THEN Exit(0, {Printed(
                          Handle("Struct",
                              lookup_type(file.data, "Struct", cmd.name).val.loc),
                          cmd.verbose)})
         ELSE Exit(1, {<<"Could not find struct: ", cmd.name>>})
    ELSE IF cmd.fast
    THEN Exit(0, { Printed(struc, cmd.verbose) :
                     struc \in Values(get_named_types_map(file.data,
                                                          "Struct").val) })
    ELSE Exit(0, { Printed(struc, cmd.verbose) :
                     struc \in Values(get_fg_named_structs_map(file.data).val) })

\* the file at the path given: missing, not an object file, or an object
\* file with debug info
InitCli ==
    /\ \/ \E n \in 0..MaxDies :
            \E ds \in [1..n -> ScanDies] :
               \E cut \in 0..n :
                  dwarf = [exists |-> TRUE, object |-> TRUE,
                           data |-> ScanInput(ds, cut)]
       \/ \E exists \in BOOLEAN :
             dwarf = [exists |-> exists, object |-> FALSE,
                      data |-> ScanInput(<< >>, 0)]
    /\ op = "start"
    /\ arg = << >>
    /\ ret = << >>

Commands ==
    { [command |-> "lookup", name |-> n, verbose |-> v, fast |-> FALSE] :
        n \in Names, v \in BOOLEAN }
    \cup { [command |-> "dump", name |-> "", verbose |-> v, fast |-> f] :
             v \in BOOLEAN, f \in BOOLEAN }

Main ==
    \E cmd \in Commands :
        /\ op' = "main"
        /\ arg' = cmd
        /\ ret' = main(dwarf, cmd)
        /\ UNCHANGED dwarf

SpecCli == InitCli /\ [][Main]_vars

\* C19: the process exits with code 0 on success, with code 1 when lookup
\* does not find the name, after printing `Could not find struct: NAME`,
\* and with code 2 when the input file is missing or malformed.
C19_ExitCodes ==
    op = "main" =>
        IF ~dwarf.exists \/ ~dwarf.object THEN ret.exit_code = 2
        ELSE IF /\ arg.command = "lookup"
                /\ \A loc \in Positions(dwarf.data) :
                      ~Carries(dwarf.data, loc, "Struct", arg.name)
        THEN ret = Exit(1, {<<"Could not find struct: ", arg.name>>})
        ELSE ret.exit_code = 0

-----------------------------------------------------------------------------
(* The formatter.  A text is the sequence of the pieces pushed onto the    *)
(* String; a line break and a `*` after a type are pieces of their own.    *)

\* r?: the rest runs on the value of an Ok, an Err is returned as it is
Then(r, Rest(_)) == IF r.ok THEN Rest(r.val) ELSE r

\* a match with one error turned into a value
OrOn(r, e, v) == IF IsErr(r, e) THEN Ok(v) ELSE r

Digits == <<"0", "1", "2", "3", "4", "5", "6", "7", "8", "9">>

RECURSIVE Decimal(_)
\* {n}: the decimal digits of a number
Decimal(n) ==
    IF n < 10 THEN Digits[n + 1]
    ELSE Decimal(n \div 10) \o Digits[(n % 10) + 1]

RECURSIVE Spaces(_)
Spaces(n) == IF n <= 0 THEN "" ELSE " " \o Spaces(n - 1)

\* {n: >4}: the digits of a number, right-aligned in four columns
PadLeft(n) == Spaces(4 - Len(Decimal(n))) \o Decimal(n)

\* for _ in 0..=tablevel: one indent more than the level
Indent(tablevel) == [k \in 1..(tablevel + 1) |-> "    "]

\* out.ends_with('*')
EndsWithStar(out) == Len(out) > 0 /\ out[Len(out)] = "*"

RECURSIVE LineLen(_)
\* the length of the text after its last line break
LineLen(out) ==
    IF out = << >> \/ out[Len(out)] = "\n" THEN 0
    ELSE LineLen(SubSeq(out, 1, Len(out) - 1)) + Len(out[Len(out)])

\* DW_AT_bit_size of a member
u_bit_size(unit, self) ==
    IF ~EntryResolves(unit, self.location.entry_offset) THEN Err("DIEError")
    ELSE LET a == unit.entries[self.location.entry_offset].bit_size
         IN  CASE a.form = "udata"   -> Ok(a.val)
               [] a.form = "exprloc" -> Err("UnimplementedError")
               [] a.form = "loclist" -> Err("UnimplementedError")
               [] a.form = "absent"  -> Err("BitSizeAttributeNotFound")
               [] OTHER              -> Err("InvalidAttributeError")

RECURSIVE ParamsFrom(_, _, _)
\* the DIEs from entry offset i on, as long as they are formal parameters
ParamsFrom(unit, u, i) ==
    IF i > Len(unit.entries)
       \/ unit.entries[i].tag # "DW_TAG_formal_parameter"
    THEN << >>
    ELSE <<Handle("FormalParameter", DwarfUnit(u, i))>>
             \o ParamsFrom(unit, u, i + 1)

u_get_params(unit, self) ==
    IF ~EntryResolves(unit, self.location.entry_offset) THEN Err("DIEError")
    ELSE Ok(ParamsFrom(unit, self.location.die_offset,
                       self.location.entry_offset + 1))

\* u_name of a handle
u_name(d, unit, self) ==
    IF ~EntryResolves(unit, self.location.entry_offset) THEN Err("DIEError")
    ELSE get_entry_name(d, unit.entries[self.location.entry_offset])

RECURSIVE format_type(_, _, _, _, _, _, _, _)
RECURSIVE format_member(_, _, _, _, _, _)
RECURSIVE FormatMembers(_, _, _, _, _, _)
RECURSIVE FormatParams(_, _, _, _, _, _, _)

\* the members of an aggregate, each formatted in turn; the first error
\* ends the loop
FormatMembers(d, unit, ms, tablevel, verbosity, base_offset) ==
    IF ms = << >> THEN Ok(<< >>)
    ELSE Then(format_member(d, unit, Head(ms), tablevel, verbosity,
                            base_offset),
              LAMBDA first :
         Then(FormatMembers(d, unit, Tail(ms), tablevel, verbosity,
                            base_offset),
              LAMBDA rest : Ok(first \o rest)))

\* the types of the parameters of a subroutine, separated by commas
FormatParams(d, unit, params, level, tablevel, verbosity, base_offset) ==
    IF params = << >> THEN Ok(<< >>)
    ELSE Then(u_get_type(unit, Head(params)), LAMBDA param :
         Then(format_type(d, unit, "", param, level + 1, tablevel, verbosity,
                          base_offset),
              LAMBDA first :
         Then(FormatParams(d, unit, Tail(params), level, tablevel, verbosity,
                           base_offset),
              LAMBDA rest :
                 Ok(first \o (IF Tail(params) = << >> THEN << >>
                              ELSE <<", ">>) \o rest))))

\* a named aggregate or enum: the keyword and the name, and the member's
\* name at level 0
FormatNamed(keyword, name, member_name, level) ==
    IF level = 0 THEN Ok(<<keyword, " ", name, " ", member_name>>)
    ELSE Ok(<<keyword, " ", name>>)

\* a faulty variant: the nested members' offsets start again at 0
FormatAnonymous_relative(d, unit, keyword, typ, tablevel, verbosity, base_offset) ==
    Then(u_members(unit, typ), LAMBDA ms :
    Then(FormatMembers(d, unit, ms, tablevel + 1, verbosity, 0),
         LAMBDA body :
            Ok(<<keyword, " ", "{", "\n">> \o body
               \o Indent(tablevel) \o <<"}">>)))

\* an aggregate without a name: its members one level deeper between
\* braces, the closing brace at the indent of the member
FormatAnonymous(d, unit, keyword, typ, tablevel, verbosity, base_offset) ==
    Then(u_members(unit, typ), LAMBDA ms :
    Then(FormatMembers(d, unit, ms, tablevel + 1, verbosity, base_offset),
         LAMBDA body :
            Ok(<<keyword, " ", "{", "\n">> \o body
               \o Indent(tablevel) \o <<"}">>)))

\* the text of the type a pointer points to, void for a missing DW_AT_type
FormatInner(d, unit, inner, level, tablevel, verbosity, base_offset) ==
    IF IsErr(inner, "TypeAttributeNotFound") THEN Ok(<<"void">>)
    ELSE Then(inner, LAMBDA typ :
              format_type(d, unit, "", typ, level + 1, tablevel, verbosity,
                          base_offset))

format_type(d, unit, member_name, typ, level, tablevel, verbosity, base_offset) ==
    CASE typ.kind = "Array" ->
           Then(u_get_type(unit, typ), LAMBDA inner :
           Then(format_type(d, unit, "", inner, level + 1, tablevel,
                            verbosity, base_offset),
                LAMBDA inner_fmt :
           Then(u_get_bound(unit, typ), LAMBDA bound :
              Ok(inner_fmt
                 \o (IF EndsWithStar(inner_fmt) THEN << >> ELSE <<" ">>)
                 \o (IF level = 0 THEN <<member_name>> ELSE << >>)
                 \o (IF bound = 0 THEN <<"[]">>
                     ELSE <<"[", Decimal(bound), "]">>)))))
      [] typ.kind = "Typedef" ->
           Then(u_name(d, unit, typ), LAMBDA name :
              IF level = 0 THEN Ok(<<name, " ", member_name>>)
              ELSE Ok(<<name>>))
      [] typ.kind \in {"Struct", "Union"} ->
           IF IsErr(u_name(d, unit, typ), "NameAttributeNotFound")
           THEN FormatAnonymous(d, unit,
                    IF typ.kind = "Struct" THEN "struct" ELSE "union",
                    typ, tablevel, verbosity, base_offset)
           ELSE Then(u_name(d, unit, typ), LAMBDA name :
                   FormatNamed(IF typ.kind = "Struct" THEN "struct"
                               ELSE "union", name, member_name, level))
      [] typ.kind = "Enum" ->
           IF IsErr(u_name(d, unit, typ), "NameAttributeNotFound")
           THEN IF level = 0 THEN Ok(<<"enum", " ", member_name>>)
                ELSE Ok(<<"enum">>)
           ELSE Then(u_name(d, unit, typ), LAMBDA name :
                   FormatNamed("enum", name, member_name, level))
      [] typ.kind = "Base" ->
           Then(u_name(d, unit, typ), LAMBDA name :
              IF level = 0 THEN Ok(<<name, " ", member_name>>)
              ELSE Ok(<<name>>))
      [] typ.kind = "Subroutine" ->
           Then(u_get_params(unit, typ), LAMBDA params :
              FormatParams(d, unit, params, level, tablevel, verbosity,
                           base_offset))
      [] typ.kind = "Pointer" ->
           IF u_get_type(unit, typ).ok
              /\ u_get_type(unit, typ).val.kind = "Subroutine"
           THEN Then(FormatInner(d, unit,
                         u_get_type(unit, u_get_type(unit, typ).val),
                         level, tablevel, verbosity, base_offset),
                     LAMBDA return_type :
                Then(format_type(d, unit, "", u_get_type(unit, typ).val,
                                 level + 1, tablevel, verbosity, base_offset),
                     LAMBDA argstr :
                        Ok(return_type \o <<" ", "(*", member_name, ")", "(">>
                           \o argstr \o <<")">>)))
           ELSE Then(FormatInner(d, unit, u_get_type(unit, typ), level,
                                 tablevel, verbosity, base_offset),
                     LAMBDA ptr_type :
                        Ok(ptr_type
                           \o (IF EndsWithStar(ptr_type) THEN <<"*">>
                               ELSE <<" ", "*">>)
                           \o (IF level = 0 THEN <<member_name>>
                               ELSE << >>)))
      [] typ.kind = "Const" ->
           IF IsErr(u_get_type(unit, typ), "TypeAttributeNotFound")
           THEN Ok(<<"const", " ", "void">>)
           ELSE Then(u_get_type(unit, typ), LAMBDA inner :
                Then(format_type(d, unit, "", inner, level + 1, tablevel,
                                 verbosity, base_offset),
                     LAMBDA inner_fmt : Ok(<<"const", " ">> \o inner_fmt)))
      [] typ.kind = "Volatile" ->
           Then(u_get_type(unit, typ), LAMBDA inner :
           Then(format_type(d, unit, "", inner, level + 1, tablevel,
                            verbosity, base_offset),
                LAMBDA inner_fmt : Ok(<<"volatile", " ">> \o inner_fmt)))
      [] typ.kind = "Restrict" ->
           Then(u_get_type(unit, typ), LAMBDA inner :
           Then(format_type(d, unit, "", inner, level + 1, tablevel,
                            verbosity, base_offset),
                LAMBDA inner_fmt : Ok(inner_fmt \o <<" ", "restrict">>)))

\* the /* size | offset */ comment of verbose mode, after padding the line
\* to column 48
FormatComment(formatted, bytesz, off) ==
    formatted \o <<Spaces(48 - LineLen(formatted)), "\t/* ", PadLeft(bytesz),
                   " | ", PadLeft(off), " */">>

\* the line of a member: indent, type and name, bit size, `;` and in
\* verbose mode the comment
format_member(d, unit, member, tablevel, verbosity, base_offset) ==
    Then(u_get_type(unit, member), LAMBDA mtype :
    Then(OrOn(u_name(d, unit, member), "NameAttributeNotFound", ""),
         LAMBDA name :
    Then(OrOn(u_member_location(unit, member),
              "MemberLocationAttributeNotFound", 0),
         LAMBDA memb_offset :
    Then(format_type(d, unit, name, mtype, 0, tablevel, verbosity,
                     (base_offset + memb_offset) % UsizeModulus),
         LAMBDA text :
    Then(OrOn(Then(u_bit_size(unit, member),
                   LAMBDA bitsz : Ok(<<":", Decimal(bitsz)>>)),
              "BitSizeAttributeNotFound", << >>),
         LAMBDA bits :
       IF verbosity > 0
       THEN Then(InnerByteSize(unit, member, MaxFuel), LAMBDA bytesz :
               Ok(FormatComment(Indent(tablevel) \o text \o bits \o <<";">>,
                                bytesz,
                                (base_offset + memb_offset) % UsizeModulus)
                  \o <<"\n">>))
       ELSE Ok(Indent(tablevel) \o text \o bits \o <<";", "\n">>))))))

-----------------------------------------------------------------------------
(* Inputs of the formatter: struct outer { int a; T s; int d; } with the   *)
(* type, the name, the location and the bit size of the member in the      *)
(* middle chosen freely.                                                   *)

\* the types of the unit: int, const int, int *, volatile int, the typedef
\* u32, int[4], a struct without a name { int b; int c; }, a union without
\* a name { int u; } whose member has no DW_AT_data_member_location, and a
\* struct without a name { int e; union { int u; }; }
FormatPool ==
    <<RootDie,
      [BaseType(Udata(4)) EXCEPT !.name = NameString("int")],
      [Die("DW_TAG_const_type", 1) EXCEPT !.type = UnitRef(2)],
      [Die("DW_TAG_pointer_type", 1) EXCEPT !.type = UnitRef(2)],
      [Die("DW_TAG_volatile_type", 1) EXCEPT !.type = UnitRef(2)],
      [Die("DW_TAG_typedef", 1) EXCEPT
          !.name = NameString("u32"), !.type = UnitRef(2)],
      [Die("DW_TAG_array_type", 1) EXCEPT !.type = UnitRef(2)],
      [Die("DW_TAG_subrange_type", 2) EXCEPT !.upper_bound = Udata(3)],
      [Die("DW_TAG_structure_type", 1) EXCEPT !.byte_size = Udata(8)],
      IntMember("b", Udata(0)),
      IntMember("c", Udata(4)),
      [Die("DW_TAG_union_type", 1) EXCEPT !.byte_size = Udata(4)],
      IntMember("u", Absent),
      [Die("DW_TAG_structure_type", 1) EXCEPT !.byte_size = Udata(8)],
      IntMember("e", Udata(0)),
      Field(UnitRef(12), Udata(4))>>

FormatTypes ==
    {Absent, UnitRef(2), UnitRef(3), UnitRef(4), UnitRef(5), UnitRef(6),
     UnitRef(7), UnitRef(9), UnitRef(12), UnitRef(14)}

FormatInput(ty, name, loc, bits) ==
    TypeInput(FormatPool
              \o <<SizedStruct(NameString("outer"), 24),
                   IntMember("a", Udata(0)),
                   [Field(ty, loc) EXCEPT !.name = name, !.bit_size = bits],
                   IntMember("d", Udata(16))>>)

InitFormat ==
    /\ \E ty \in FormatTypes, name \in {NoName, NameString("s")},
          loc \in {Absent, Exprloc, Udata(4)},
          bits \in {Absent, Udata(3)} :
            dwarf = FormatInput(ty, name, loc, bits)
    /\ op = "load"
    /\ arg = << >>
    /\ ret = << >>

FormatMember ==
    \E member \in MemberHandles(dwarf), tablevel \in {0, 1},
       verbosity \in {0, 1}, base_offset \in {0, 8} :
        /\ op' = "format_member"
        /\ arg' = [member |-> member, tablevel |-> tablevel,
                   verbosity |-> verbosity, base_offset |-> base_offset]
        /\ ret' = format_member(dwarf, Unit(dwarf, member.location), member,
                                tablevel, verbosity, base_offset)
        /\ UNCHANGED dwarf

SpecFormat == InitFormat /\ [][FormatMember]_vars

-----------------------------------------------------------------------------
(* Claims about the formatter.                                             *)

RECURSIVE Text(_)
\* the String a sequence of pieces makes
Text(out) == IF out = << >> THEN "" ELSE Head(out) \o Text(Tail(out))

\* the DIE of the member formatted, and the DIE of its type
ArgMember == EntryAt(dwarf, arg.member.location)

ArgType == Unit(dwarf, arg.member.location).entries[ArgMember.type.val]

\* the lines of the DW_TAG_member children of the member's type, one level
\* deeper than the member
NestedLines ==
    FormatMembers(dwarf, Unit(dwarf, arg.member.location),
        [k \in 1..Len(MemberChildren(dwarf,
                 DwarfUnit(arg.member.location.die_offset,
                           ArgMember.type.val))) |->
            Handle("Member",
                   MemberChildren(dwarf,
                       DwarfUnit(arg.member.location.die_offset,
                                 ArgMember.type.val))[k])],
        arg.tablevel + 1, arg.verbosity, arg.base_offset).val

\* C16: a named member whose type is a struct or union without a name is
\* formatted (without comments and bit size) as the indent, `struct {` or
\* `union {`, the lines of the nested members one level deeper, the closing
\* `}` at the indent of the opening line, the member's name and `;`.
C16_AnonymousAggregateMember ==
    /\ op = "format_member"
    /\ arg.verbosity = 0
    /\ ArgMember.type.form = "ref"
    /\ ArgMember.bit_size.form = "absent"
    /\ ArgMember.data_member_location.form \in {"udata", "absent"}
    /\ get_entry_name(dwarf, ArgMember).ok
    /\ ArgType.tag \in {"DW_TAG_structure_type", "DW_TAG_union_type"}
    /\ ArgType.name.form = "absent"
    => /\ ret.ok
       /\ Text(ret.val) =
            Text(Indent(arg.tablevel)
                 \o <<IF ArgType.tag = "DW_TAG_structure_type"
                      THEN "struct {\n" ELSE "union {\n">>
                 \o NestedLines
                 \o Indent(arg.tablevel)
                 \o <<"} ", get_entry_name(dwarf, ArgMember).val, ";\n">>)

-----------------------------------------------------------------------------
(* One reader shared by several threads.  The reader holds the section     *)
(* bytes and the endianness; every operation takes &self and reads the     *)
(* sections through borrow_dwarf.                                          *)

\* the threads that share the reader
NumThreads == 2

Threads == 1..NumThreads

\* sections in which no unit header parses
EmptySections == [units |-> << >>, debug_str |-> << >>, debug_line_str |-> << >>]

\* the reader Dwarf::load builds for an object file of an endianness: the
\* section bytes stand for what they decode to when read in each byte order
Reader(d, endianness) ==
    [dwarf_cow |-> [e \in {"Little", "Big"} |->
                       IF e = endianness THEN d ELSE EmptySections],
     endianness |-> endianness]

\* a faulty variant: the sections are moved out of the reader
borrow_dwarf_taking(self) ==
    [dwarf |-> self.dwarf_cow[self.endianness],
     self  |-> [self EXCEPT !.dwarf_cow = [e \in {"Little", "Big"} |->
                                              EmptySections]]]

\* borrow_dwarf: the sections borrowed as slices of the reader's byte
\* order, handed to the closure; the reader is borrowed immutably
borrow_dwarf(self) ==
    [dwarf |-> self.dwarf_cow[self.endianness], self |-> self]

\* a call: the operation and its arguments
SharedCall(name, text, typ) == [name |-> name, text |-> text, typ |-> typ]

NoHandle == Handle("None", DwarfUnit(0, 0))

\* the calls a thread may make on the reader: lookups, index scans,
\* accessors and formatting of the handles the reader yields
SharedCalls(d) ==
    { SharedCall("lookup_type", n, NoHandle) : n \in Names }
    \cup { SharedCall(n, "", NoHandle) :
             n \in {"get_named_types_map", "get_named_types",
                    "get_fg_named_structs_map"} }
    \cup { SharedCall(n, "", h) :
             n \in {"byte_size", "members"},
             h \in { x \in TypeHandles(d) : x.kind = "Struct" } }
    \cup { SharedCall("format_member", "", m) : m \in MemberHandles(d) }

\* the result of a call on the borrowed sections
Apply(call, d) ==
    CASE call.name = "lookup_type" -> lookup_type(d, "Struct", call.text)
      [] call.name = "get_named_types_map" -> get_named_types_map(d, "Struct")
      [] call.name = "get_named_types" -> get_named_types(d, "Struct")
      [] call.name = "get_fg_named_structs_map" -> get_fg_named_structs_map(d)
      [] call.name = "byte_size" -> byte_size(d, call.typ)
      [] call.name = "members" -> members(d, call.typ)
      [] call.name = "format_member" ->
             IF ~HeaderResolves(d, call.typ.location) THEN Err("CUError")
             ELSE format_member(d, Unit(d, call.typ.location), call.typ,
                                0, 1, 0)

\* one object file of either byte order, with one or two compile units
InitShared ==
    /\ \E s1 \in FgShapes, n2 \in 0..1, endianness \in {"Little", "Big"} :
          dwarf = Reader([units |-> <<FgUnit(<<s1>>)>>
                                      \o [k \in 1..n2 |-> FgUnit(<< >>)],
                          debug_str |-> DebugStr, debug_line_str |-> << >>],
                         endianness)
    /\ op = [t \in Threads |-> "idle"]
    /\ arg = [t \in Threads |-> SharedCall("none", "", NoHandle)]
    /\ ret = [t \in Threads |-> << >>]

\* a thread enters an operation
Invoke(t) ==
    /\ op[t] # "called"
    /\ \E call \in SharedCalls(borrow_dwarf(dwarf).dwarf) :
          arg' = [arg EXCEPT ![t] = call]
    /\ op' = [op EXCEPT ![t] = "called"]
    /\ ret' = [ret EXCEPT ![t] = << >>]
    /\ UNCHANGED dwarf

\* the operation of a thread reads the sections and returns
Complete(t) ==
    /\ op[t] = "called"
    /\ ret' = [ret EXCEPT ![t] = Apply(arg[t], borrow_dwarf(dwarf).dwarf)]
    /\ dwarf' = borrow_dwarf(dwarf).self
    /\ op' = [op EXCEPT ![t] = "returned"]
    /\ UNCHANGED arg

NextShared == \E t \in Threads : Invoke(t) \/ Complete(t)

SpecShared == InitShared /\ [][NextShared]_vars

-----------------------------------------------------------------------------
(* Inputs of get_type: two DIEs of any tag and a DIE that refers to one of *)
(* them, to none, or carries DW_AT_type in a form that is not a unit       *)
(* reference.                                                              *)

\* the tags of the table and three tags outside it
ReferredTags ==
    { tag(K) : K \in TypeKinds }
    \cup {"DW_TAG_class_type", "DW_TAG_variable", "DW_TAG_subprogram"}

ReferringTags ==
    {"DW_TAG_typedef", "DW_TAG_pointer_type", "DW_TAG_const_type",
     "DW_TAG_volatile_type"}

InitType ==
    /\ \E t1 \in ReferredTags, t2 \in ReferredTags, t \in ReferringTags,
          ty \in {Absent, OtherForm, UnitRef(2), UnitRef(3)} :
            dwarf = TypeInput(<<RootDie, Die(t1, 1), Die(t2, 1),
                                [Die(t, 1) EXCEPT !.type = ty]>>)
    /\ op = "load"
    /\ arg = << >>
    /\ ret = << >>

GetType ==
    \E self \in { h \in TypeHandles(dwarf) :
                    tag(h.kind) \in ReferringTags } :
        /\ op' = "get_type"
        /\ arg' = self
        /\ ret' = get_type(dwarf, self)
        /\ UNCHANGED dwarf

SpecType == InitType /\ [][GetType]_vars

\* the DIE DW_AT_type of the handle's DIE refers to
ReferredEntry == Unit(dwarf, arg.location).entries[SelfEntry.type.val]

\* C21: get_type returns the handle of the kind whose tag is the tag of the
\* DIE DW_AT_type refers to, in the unit of the referring handle and at the
\* referred offset; a referred DIE of a tag outside the table gives the
\* Unimplemented error, an absent DW_AT_type the type-not-found error.
C21_GetTypeByTagTable ==
    op = "get_type" =>
        IF SelfEntry.type.form = "absent"
        THEN ret = Err("TypeAttributeNotFound")
        ELSE SelfEntry.type.form = "ref" =>
               IF ReferredEntry.tag \in { tag(K) : K \in TypeKinds }
               THEN /\ ret.ok
                    /\ ret.val.kind \in TypeKinds
                    /\ tag(ret.val.kind) = ReferredEntry.tag
                    /\ ret.val.location =
                          DwarfUnit(arg.location.die_offset,
                                    SelfEntry.type.val)
               ELSE ret = Err("UnimplementedError")

\* get_type on a const whose DW_AT_type refers to an enumeration in the
\* second unit, and the handle is an Enum of that unit
C21_Witness ==
    /\ op = "get_type"
    /\ arg.kind = "Const"
    /\ arg.location.die_offset = 2
    /\ SelfEntry.type = UnitRef(3)
    /\ ReferredEntry.tag = "DW_TAG_enumeration_type"
    /\ ret = Ok(Handle("Enum", DwarfUnit(2, 3)))

-----------------------------------------------------------------------------
(* The enumerators of an enumeration.                                      *)

\* DW_FORM_sdata holding a negative number: gimli's udata_value() is None
Sdata(n) == [form |-> "sdata", val |-> n]

\* the most children of the enumeration of the inputs
MaxEnumerators == 3

RECURSIVE EnumeratorsFrom(_, _, _)
\* the DIEs from entry offset i on, as long as they are enumerators: a name
\* that does not decode is the error of the call, an enumerator whose
\* constant has no udata_value() is passed over
EnumeratorsFrom(d, unit, i) ==
    IF i > Len(unit.entries) \/ unit.entries[i].tag # "DW_TAG_enumerator"
    THEN Ok(<< >>)
    ELSE IF ~get_entry_name(d, unit.entries[i]).ok
    THEN get_entry_name(d, unit.entries[i])
    ELSE IF ~EnumeratorsFrom(d, unit, i + 1).ok
    THEN EnumeratorsFrom(d, unit, i + 1)
    ELSE Ok((IF unit.entries[i].const_value.form = "udata"
             THEN <<[name  |-> get_entry_name(d, unit.entries[i]).val,
                     value |-> unit.entries[i].const_value.val]>>
             ELSE << >>)
            \o EnumeratorsFrom(d, unit, i + 1).val)

\* Enum::enumerators
enumerators(d, self) ==
    IF ~HeaderResolves(d, self.location) THEN Err("CUError")
    ELSE IF ~EntryResolves(Unit(d, self.location), self.location.entry_offset)
    THEN Err("DIEError")
    ELSE EnumeratorsFrom(d, Unit(d, self.location),
                         self.location.entry_offset + 1)

\* the children of the enumeration of the inputs: enumerators named A with
\* a constant of either sign or without one, enumerators without a name,
\* and a child of another tag
EnumChildren ==
    { [Die(t, 2) EXCEPT !.name = n, !.const_value = v] :
        t \in {"DW_TAG_enumerator", "DW_TAG_subprogram"},
        n \in {NameString("A"), NoName},
        v \in {Absent, Udata(0), Udata(2), Sdata(-1)} }

InitEnum ==
    /\ \E n \in 0..MaxEnumerators :
         \E cs \in [1..n -> EnumChildren] :
            dwarf = TypeInput(<<RootDie,
                                [Die("DW_TAG_enumeration_type", 1) EXCEPT
                                    !.name = NameString("e"),
                                    !.byte_size = Udata(4)]>>
                              \o cs \o <<BaseType(Udata(4))>>)
    /\ op = "load"
    /\ arg = << >>
    /\ ret = << >>

Enumerators ==
    \E self \in { h \in TypeHandles(dwarf) : h.kind = "Enum" } :
        /\ op' = "enumerators"
        /\ arg' = self
        /\ ret' = enumerators(dwarf, self)
        /\ UNCHANGED dwarf

SpecEnum == InitEnum /\ [][Enumerators]_vars

\* the DW_TAG_enumerator children of the enumeration, in source order
EnumeratorChildren ==
    Ordered({ c \in Children(dwarf, arg.location) :
                EntryAt(dwarf, c).tag = "DW_TAG_enumerator" })

\* C22: for an enumeration whose enumerators all have a name and a
\* constant, enumerators returns one entry per DW_TAG_enumerator child, in
\* order, with the child's name and, for a constant that is not negative,
\* its value, whatever the sign of the constants and whatever other
\* children lie between the enumerators.
C22_OneEntryPerEnumerator ==
    /\ op = "enumerators"
    /\ \A k \in 1..Len(EnumeratorChildren) :
          /\ get_entry_name(dwarf, EntryAt(dwarf, EnumeratorChildren[k])).ok
          /\ EntryAt(dwarf, EnumeratorChildren[k]).const_value.form
                 \in {"udata", "sdata"}
    => /\ ret.ok
       /\ Len(ret.val) = Len(EnumeratorChildren)
       /\ \A k \in 1..Len(ret.val) :
             /\ ret.val[k].name =
                   get_entry_name(dwarf,
                       EntryAt(dwarf, EnumeratorChildren[k])).val
             /\ EntryAt(dwarf, EnumeratorChildren[k]).const_value.val >= 0
                  => ret.val[k].value =
                        EntryAt(dwarf, EnumeratorChildren[k]).const_value.val

-----------------------------------------------------------------------------
(* Struct::to_string_verbose and Union::to_string_verbose.  The closure    *)
(* given to unit_context pushes onto repr as it goes; what it returns and  *)
(* the text pushed so far are kept apart.                                  *)

\* DW_AT_alignment of a DIE
get_entry_alignment(entry) ==
    CASE entry.alignment.form = "udata"  -> Ok(entry.alignment.val)
      [] entry.alignment.form = "absent" -> Err("AlignmentAttributeNotFound")
      [] OTHER                           -> Err("InvalidAttributeError")

u_alignment(unit, self) ==
    IF ~EntryResolves(unit, self.location.entry_offset) THEN Err("DIEError")
    ELSE get_entry_alignment(unit.entries[self.location.entry_offset])

\* the state of the closure: the text in repr and the closure's result
Closure(repr, result) == [repr |-> repr, result |-> result]

RECURSIVE PushMembers(_, _, _, _, _)
RECURSIVE PushMember(_, _, _, _, _, _)
\* for member in members: each line is pushed, the first error returns
PushMembers(d, unit, ms, verbosity, repr) ==
    IF ms = << >> THEN Closure(repr, Ok(<< >>))
    ELSE PushMember(d, unit, ms, verbosity, repr,
                    format_member(d, unit, Head(ms), 0, verbosity, 0))

PushMember(d, unit, ms, verbosity, repr, line) ==
    IF ~line.ok THEN Closure(repr, line)
    ELSE PushMembers(d, unit, Tail(ms), verbosity, repr \o line.val)

\* the header line of an aggregate
PushHeader(keyword, name) ==
    IF name.ok THEN Closure(<<keyword, " ", name.val, " {\n">>, Ok(<< >>))
    ELSE IF IsErr(name, "NameAttributeNotFound")
    THEN Closure(<<keyword, " {\n">>, Ok(<< >>))
    ELSE Closure(<< >>, name)

\* the header and the members
PushBody(d, unit, self, verbosity, head, ms) ==
    IF ~head.result.ok THEN head
    ELSE IF ~ms.ok THEN Closure(head.repr, ms)
    ELSE PushMembers(d, unit, ms.val, verbosity, head.repr)

\* if verbosity > 0: the total size
PushSize(verbosity, body, bytesz) ==
    IF ~body.result.ok \/ verbosity = 0 THEN body
    ELSE IF ~bytesz.ok THEN Closure(body.repr, bytesz)
    ELSE Closure(body.repr \o <<"\n    /* total size: ", Decimal(bytesz.val),
                                " */\n">>, Ok(<< >>))

\* the closing brace, the alignment and the semicolon
PushAlignment(sized, alignment) ==
    IF ~sized.result.ok THEN sized
    ELSE IF alignment.ok
    THEN Closure(sized.repr \o <<"}", " __attribute((__aligned__(",
                                 Decimal(alignment.val), ")))", ";">>,
                 Ok(<< >>))
    ELSE IF IsErr(alignment, "AlignmentAttributeNotFound")
    THEN Closure(sized.repr \o <<"}", ";">>, Ok(<< >>))
    ELSE Closure(sized.repr \o <<"}">>, alignment)

\* the closure of Struct::to_string_verbose
StructClosure(d, unit, self, verbosity) ==
    PushAlignment(
        PushSize(verbosity,
                 PushBody(d, unit, self, verbosity,
                          PushHeader("struct", u_name(d, unit, self)),
                          u_members(unit, self)),
                 Struct_u_byte_size(unit, self)),
        u_alignment(unit, self))

\* repr.push_str("};")
PushClose(body) ==
    IF ~body.result.ok THEN body
    ELSE Closure(body.repr \o <<"};">>, Ok(<< >>))

\* the closure of Union::to_string_verbose
UnionClosure(d, unit, self, verbosity) ==
    PushClose(PushBody(d, unit, self, verbosity,
                       PushHeader("union", u_name(d, unit, self)),
                       u_members(unit, self)))

\* let _ = dwarf.unit_context(..); Ok(repr): neither the error of
\* unit_context nor the result of the closure is looked at
Struct_to_string_verbose(d, self, verbosity) ==
    IF ~HeaderResolves(d, self.location) THEN Ok(<< >>)
    ELSE Ok(StructClosure(d, Unit(d, self.location), self, verbosity).repr)

\* let _ = dwarf.unit_context(..)?; Ok(repr): the error of unit_context is
\* returned, the result of the closure is not looked at
Union_to_string_verbose(d, self, verbosity) ==
    IF ~HeaderResolves(d, self.location) THEN Err("CUError")
    ELSE Ok(UnionClosure(d, Unit(d, self.location), self, verbosity).repr)

to_string_verbose(d, self, verbosity) ==
    IF self.kind = "Struct" THEN Struct_to_string_verbose(d, self, verbosity)
    ELSE Union_to_string_verbose(d, self, verbosity)

\* struct or union outer { int a; T s; int d; } with the name, the size and
\* the alignment of outer and the type and the location of s chosen freely
StringInput(t, name, size, align, ty, loc) ==
    TypeInput(FormatPool
              \o <<[Die(t, 1) EXCEPT !.name = name, !.byte_size = size,
                                     !.alignment = align],
                   IntMember("a", Udata(0)),
                   [Field(ty, loc) EXCEPT !.name = NameString("s")],
                   IntMember("d", Udata(16))>>)

\* the position of outer in the unit
OuterAt == Len(FormatPool) + 1

InitString ==
    /\ \E t \in {"DW_TAG_structure_type", "DW_TAG_union_type"},
          name \in {NoName, NameString("outer"), NameStrp(99)},
          size \in {Absent, Exprloc, Udata(24)},
          align \in {Absent, OtherForm, Udata(8)},
          ty \in {Absent, UnitRef(2), UnitRef(4), UnitRef(9)},
          loc \in {Absent, Exprloc, Udata(8)} :
            dwarf = StringInput(t, name, size, align, ty, loc)
    /\ op = "load"
    /\ arg = << >>
    /\ ret = << >>

\* to_string_verbose of outer, or of a handle whose unit header does not
\* resolve
ToStringVerbose ==
    \E u \in {2, 3}, verbosity \in {0, 1} :
        /\ op' = "to_string_verbose"
        /\ arg' = [self |-> Handle(IF dwarf.units[2].entries[OuterAt].tag
                                        = "DW_TAG_structure_type"
                                   THEN "Struct" ELSE "Union",
                                   DwarfUnit(u, OuterAt)),
                   verbosity |-> verbosity]
        /\ ret' = to_string_verbose(dwarf, arg'.self, verbosity)
        /\ UNCHANGED dwarf

SpecString == InitString /\ [][ToStringVerbose]_vars

\* the error met first by the steps of the formatter, if any: resolving the
\* unit, reading the name, listing the members, formatting each member,
\* reading the byte size (verbose only)
RECURSIVE FirstMemberError(_, _, _, _)
FirstMemberError(d, unit, ms, verbosity) ==
    IF ms = << >> THEN Ok(<< >>)
    ELSE IF ~format_member(d, unit, Head(ms), 0, verbosity, 0).ok
    THEN format_member(d, unit, Head(ms), 0, verbosity, 0)
    ELSE FirstMemberError(d, unit, Tail(ms), verbosity)

StepError(d, self, verbosity) ==
    IF ~HeaderResolves(d, self.location) THEN Err("CUError")
    ELSE IF ~OrOn(u_name(d, Unit(d, self.location), self),
                  "NameAttributeNotFound", "").ok
    THEN u_name(d, Unit(d, self.location), self)
    ELSE IF ~u_members(Unit(d, self.location), self).ok
    THEN u_members(Unit(d, self.location), self)
    ELSE IF ~FirstMemberError(d, Unit(d, self.location),
                u_members(Unit(d, self.location), self).val, verbosity).ok
    THEN FirstMemberError(d, Unit(d, self.location),
                u_members(Unit(d, self.location), self).val, verbosity)
    ELSE IF verbosity > 0 /\ self.kind = "Struct"
            /\ ~Struct_u_byte_size(Unit(d, self.location), self).ok
    THEN Struct_u_byte_size(Unit(d, self.location), self)
    ELSE Ok(<< >>)

\* C23: when resolving the unit, reading the name, listing the members,
\* formatting a member or reading the byte size fails with an error that is
\* not a tolerated absence, to_string_verbose of a struct or union returns
\* that error and never Ok with a partial text.
C23_ErrorsSurfaceUnchanged ==
    op = "to_string_verbose" /\ ~StepError(dwarf, arg.self, arg.verbosity).ok
    => ret = StepError(dwarf, arg.self, arg.verbosity)

-----------------------------------------------------------------------------
(* Claims about the name of a member in its line.                          *)

\* whether a text holds the name of the member as one of its pieces
NamesMember(out, name) == \E k \in 1..Len(out) : out[k] = name

\* C24: the line format_member makes of a named member whose type is Const,
\* Volatile or Restrict qualified holds the member's name after the type,
\* as it does for a member of any other type.
C24_QualifiedMemberIsNamed ==
    /\ op = "format_member"
    /\ ret.ok
    /\ ArgMember.type.form = "ref"
    /\ get_entry_name(dwarf, ArgMember).ok
    /\ ArgType.tag \in {"DW_TAG_const_type", "DW_TAG_volatile_type",
                        "DW_TAG_restrict_type"}
    => NamesMember(ret.val, get_entry_name(dwarf, ArgMember).val)

-----------------------------------------------------------------------------
(* Claims about the offsets of the verbose comments.                       *)

RECURSIVE ShownOffsets(_)
\* the offsets a text shows: in each comment the field after ` | `
ShownOffsets(out) ==
    IF Len(out) < 2 THEN << >>
    ELSE IF Head(out) = " | " THEN <<out[2]>> \o ShownOffsets(Tail(Tail(out)))
    ELSE ShownOffsets(Tail(out))

\* DW_AT_data_member_location of a member DIE, 0 when absent
LocationOrZero(entry) ==
    IF entry.data_member_location.form = "udata"
    THEN entry.data_member_location.val ELSE 0

\* whether a DIE is a struct or union without a name
IsAnonymousAggregate(entry) ==
    /\ entry.tag \in {"DW_TAG_structure_type", "DW_TAG_union_type"}
    /\ entry.name.form = "absent"

RECURSIVE AbsoluteOffsets(_, _, _)
RECURSIVE AbsoluteOffsetsOf(_, _, _, _)
\* the absolute offsets of the comment lines of the member at a position
\* whose enclosing members' locations sum to `enclosing`: those of the
\* members nested in its type when that is an aggregate without a name,
\* then its own
AbsoluteOffsets(d, loc, enclosing) ==
    (IF /\ EntryAt(d, loc).type.form = "ref"
        /\ IsAnonymousAggregate(
               Unit(d, loc).entries[EntryAt(d, loc).type.val])
     THEN AbsoluteOffsetsOf(d,
              MemberChildren(d, DwarfUnit(loc.die_offset,
                                          EntryAt(d, loc).type.val)),
              1, enclosing + LocationOrZero(EntryAt(d, loc)))
     ELSE << >>)
    \o <<enclosing + LocationOrZero(EntryAt(d, loc))>>

AbsoluteOffsetsOf(d, ms, k, enclosing) ==
    IF k > Len(ms) THEN << >>
    ELSE AbsoluteOffsets(d, ms[k], enclosing)
         \o AbsoluteOffsetsOf(d, ms, k + 1, enclosing)

RECURSIVE PaddedOffsets(_)
\* each offset as the comment shows it
PaddedOffsets(offsets) ==
    IF offsets = << >> THEN << >>
    ELSE <<PadLeft(Head(offsets))>> \o PaddedOffsets(Tail(offsets))

\* C25: in verbose mode the offset shown for a member, and for every member
\* nested in aggregates without a name, is the sum of the locations of the
\* enclosing members plus its own, an absent location counting as 0 and not
\* making the formatting fail.
C25_VerboseOffsetsAreAbsolute ==
    /\ op = "format_member"
    /\ arg.verbosity = 1
    /\ ArgMember.type.form = "ref"
    /\ ArgMember.data_member_location.form \in {"udata", "absent"}
    => /\ ret.ok
       /\ ShownOffsets(ret.val)
            = PaddedOffsets(AbsoluteOffsets(dwarf, arg.member.location,
                                     arg.base_offset))

\* a member without a location, whose type is the struct without a name that
\* holds a union without a name, is formatted with its comments below an
\* enclosing offset of 8
C25_Witness ==
    /\ op = "format_member"
    /\ arg.verbosity = 1
    /\ arg.base_offset = 8
    /\ ArgMember.type = UnitRef(14)
    /\ ArgMember.data_member_location.form = "absent"
    /\ ret.ok
    /\ Len(ShownOffsets(ret.val)) = 4

-----------------------------------------------------------------------------
(* The scan, call by call.  The callback is any FnMut: what it answers at  *)
(* a DIE is free.  ret holds the calls made so far, the answers given and, *)
(* once the scan has returned, its result.                                 *)

\* what a callback returns: Ok(false), Ok(true) or an error
Answers == {"continue", "stop", "error"}

\* a faulty variant: Ok(true) does not end the scan
EndsScanOnError(answer) == answer = "error"

\* if f(&unit, entry, unit_pos)? { return Ok(()) }: an error and Ok(true)
\* both end the scan
EndsScan(answer) == answer # "continue"

\* the result of a scan that a callback's answer ends
ScanResult(answer) ==
    IF answer = "error" THEN Err("CallbackError") ELSE Ok(<< >>)

Scanning(calls, answers) ==
    [pc |-> "scanning", calls |-> calls, answers |-> answers,
     result |-> Ok(<< >>)]

ScanReturned(calls, answers, result) ==
    [pc |-> "returned", calls |-> calls, answers |-> answers,
     result |-> result]

\* tags only: the scan looks at nothing else
VisitDies ==
    { Die(t, 1) : t \in {"DW_TAG_structure_type", "DW_TAG_union_type",
                         "DW_TAG_base_type"} }

\* up to MaxDies DIEs in two units; the abbreviations of the first unit may
\* fail to parse
InitVisit ==
    /\ \E n \in 0..MaxDies :
         \E ds \in [1..n -> VisitDies] :
            \E cut \in 0..n, p \in BOOLEAN :
               dwarf = [ScanInput(ds, cut) EXCEPT !.units[1].parses = p]
    /\ op = "load"
    /\ arg = << >>
    /\ ret = << >>

\* for_each_tagged_entry::<T> is called
StartScan ==
    /\ op = "load"
    /\ \E T \in ScanKinds :
        /\ op' = "for_each_tagged_entry"
        /\ arg' = [T |-> T]
        /\ ret' = Scanning(<< >>, << >>)
    /\ UNCHANGED dwarf

\* the loops run on to the next DIE of the tag and the callback is called
VisitEntry ==
    /\ op = "for_each_tagged_entry"
    /\ ret.pc = "scanning"
    /\ Len(ret.calls) < Len(for_each_tagged_entry(dwarf, arg.T))
    /\ \E answer \in Answers :
         ret' = IF EndsScan(answer)
                THEN ScanReturned(
                         Append(ret.calls,
                                for_each_tagged_entry(dwarf, arg.T)
                                    [Len(ret.calls) + 1]),
                         Append(ret.answers, answer), ScanResult(answer))
                ELSE Scanning(
                         Append(ret.calls,
                                for_each_tagged_entry(dwarf, arg.T)
                                    [Len(ret.calls) + 1]),
                         Append(ret.answers, answer))
    /\ UNCHANGED <<dwarf, op, arg>>

\* the units are used up: Ok(())
EndOfUnits ==
    /\ op = "for_each_tagged_entry"
    /\ ret.pc = "scanning"
    /\ Len(ret.calls) = Len(for_each_tagged_entry(dwarf, arg.T))
    /\ ret' = ScanReturned(ret.calls, ret.answers, Ok(<< >>))
    /\ UNCHANGED <<dwarf, op, arg>>

NextVisit == StartScan \/ VisitEntry \/ EndOfUnits

SpecVisit == InitVisit /\ [][NextVisit]_vars

\* the DIEs of the tag of kind T in the units that parse, in scan order
TaggedInOrder(d, T) ==
    Ordered({ loc \in Positions(d) :
                /\ d.units[loc.die_offset].parses
                /\ EntryAt(d, loc).tag = tag(T) })

\* C26: the callback is called once for each DIE of the tag, in scan order,
\* until it first answers stop or an error; no call follows such an answer;
\* the scan returns Ok after stop and at the end of the units, and the
\* callback's error after an error.
C26_ScanStopsAtFirstStop ==
    op = "for_each_tagged_entry" =>
       /\ Len(ret.calls) <= Len(TaggedInOrder(dwarf, arg.T))
       /\ ret.calls = SubSeq(TaggedInOrder(dwarf, arg.T), 1, Len(ret.calls))
       /\ \A k \in 1..(Len(ret.calls) - 1) : ret.answers[k] = "continue"
       /\ ret.pc = "returned" =>
            IF ret.calls # << >> /\ ret.answers[Len(ret.calls)] = "error"
            THEN ret.result = Err("CallbackError")
            ELSE /\ ret.result = Ok(<< >>)
                 /\ \/ ret.calls # << >>
                       /\ ret.answers[Len(ret.calls)] = "stop"
                    \/ ret.calls = TaggedInOrder(dwarf, arg.T)
       /\ ret.pc = "scanning" /\ ret.calls # << >>
            => ret.answers[Len(ret.calls)] = "continue"

\* the callback answered stop at the first of two DIEs of the tag and the
\* scan has returned
C26_Witness ==
    /\ op = "for_each_tagged_entry"
    /\ ret.pc = "returned"
    /\ ret.answers = <<"stop">>
    /\ Len(TaggedInOrder(dwarf, arg.T)) >= 2

-----------------------------------------------------------------------------
(* The handles the library hands out.                                      *)

\* get_units: a handle for every DIE of the scan
get_units(d, T) ==
    Ok([k \in 1..Len(for_each_tagged_entry(d, T)) |->
           Handle(T, for_each_tagged_entry(d, T)[k])])

\* Subroutine::get_params
get_params(d, self) ==
    IF ~HeaderResolves(d, self.location) THEN Err("CUError")
    ELSE u_get_params(Unit(d, self.location), self)

HandleTags ==
    {"DW_TAG_structure_type", "DW_TAG_member", "DW_TAG_subroutine_type",
     "DW_TAG_formal_parameter", "DW_TAG_typedef"}

\* the tags of the DIEs that are children of a type DIE
NestedTags == {"DW_TAG_member", "DW_TAG_formal_parameter"}

\* a DIE of a tag: struct foo of 8 bytes, a member m at offset 0, a
\* subroutine type, a formal parameter or the typedef foo, with DW_AT_type
\* ty where the tag has one
HandleDie(t, ty) ==
    CASE t = "DW_TAG_structure_type" -> SizedStruct(NameString("foo"), 8)
      [] t = "DW_TAG_member" ->
             [Field(ty, Udata(0)) EXCEPT !.name = NameString("m")]
      [] t = "DW_TAG_typedef" ->
             [Die(t, 1) EXCEPT !.name = NameString("foo"), !.type = ty]
      [] t = "DW_TAG_formal_parameter" -> [Die(t, 2) EXCEPT !.type = ty]
      [] OTHER -> Die(t, 1)

\* up to MaxDies DIEs below the root, the first of them a type
InitHandles ==
    /\ \E n \in 1..MaxDies :
         \E tags \in [1..n -> HandleTags],
            ty \in {Absent} \cup {UnitRef(k) : k \in 2..(n + 1)} :
            /\ tags[1] \notin NestedTags
            /\ dwarf = TypeInput(<<RootDie>>
                           \o [k \in 1..n |-> HandleDie(tags[k], ty)])
    /\ op = "load"
    /\ arg = << >>
    /\ ret = << >>

HandleKinds == {"Struct", "Subroutine", "Typedef", "Pointer"}

LookupHandle ==
    \E T \in HandleKinds :
        /\ op' = "lookup_type"
        /\ arg' = [T |-> T, name |-> "foo"]
        /\ ret' = lookup_type(dwarf, T, "foo")
        /\ UNCHANGED dwarf

NamedHandles ==
    \E T \in HandleKinds :
        /\ op' = "get_named_types"
        /\ arg' = [T |-> T]
        /\ ret' = get_named_types(dwarf, T)
        /\ UNCHANGED dwarf

NamedHandlesMap ==
    \E T \in HandleKinds :
        /\ op' = "get_named_types_map"
        /\ arg' = [T |-> T]
        /\ ret' = get_named_types_map(dwarf, T)
        /\ UNCHANGED dwarf

GetUnits ==
    \E T \in HandleKinds :
        /\ op' = "get_units"
        /\ arg' = [T |-> T]
        /\ ret' = get_units(dwarf, T)
        /\ UNCHANGED dwarf

FgHandles ==
    /\ op' = "get_fg_named_structs_map"
    /\ arg' = << >>
    /\ ret' = get_fg_named_structs_map(dwarf)
    /\ UNCHANGED dwarf

TypeOfHandle ==
    \E self \in { h \in TypeHandles(dwarf) : h.kind \in {"Typedef", "Pointer"} } :
        /\ op' = "get_type"
        /\ arg' = self
        /\ ret' = get_type(dwarf, self)
        /\ UNCHANGED dwarf

MembersOfHandle ==
    \E self \in { h \in TypeHandles(dwarf) : h.kind = "Struct" } :
        /\ op' = "members"
        /\ arg' = self
        /\ ret' = members(dwarf, self)
        /\ UNCHANGED dwarf

GetParams ==
    \E self \in { h \in TypeHandles(dwarf) : h.kind = "Subroutine" } :
        /\ op' = "get_params"
        /\ arg' = self
        /\ ret' = get_params(dwarf, self)
        /\ UNCHANGED dwarf

NextHandles ==
    \/ LookupHandle
    \/ NamedHandles
    \/ NamedHandlesMap
    \/ GetUnits
    \/ FgHandles
    \/ TypeOfHandle
    \/ MembersOfHandle
    \/ GetParams

SpecHandles == InitHandles /\ [][NextHandles]_vars

\* the tag of each handle kind, those of the kinds without a Tagged
\* implementation included
KindTag(K) ==
    CASE K = "Member"          -> "DW_TAG_member"
      [] K = "FormalParameter" -> "DW_TAG_formal_parameter"
      [] OTHER                 -> tag(K)

\* the handles in the result of the last operation
Produced ==
    CASE op = "lookup_type" ->
           IF ret.ok /\ ret.val.some
           THEN {Handle(arg.T, ret.val.loc)} ELSE {}
      [] op = "get_named_types" ->
           { ret.val[k][2] : k \in 1..Len(ret.val) }
      [] op \in {"get_named_types_map", "get_fg_named_structs_map"} ->
           { ret.val[k] : k \in DOMAIN ret.val }
      [] op \in {"get_units", "members", "get_params"} ->
           IF ret.ok THEN Range(ret.val) ELSE {}
      [] op = "get_type" -> IF ret.ok THEN {ret.val} ELSE {}
      [] OTHER -> {}

\* C27: every handle an operation returns designates a DIE of the debug
\* info whose tag is the tag of the handle's kind.
C27_HandlesDesignateTheirTag ==
    \A h \in Produced :
        /\ HeaderResolves(dwarf, h.location)
        /\ EntryResolves(Unit(dwarf, h.location), h.location.entry_offset)
        /\ EntryAt(dwarf, h.location).tag = KindTag(h.kind)

\* get_params has returned the handle of a formal parameter
C27_Witness ==
    /\ op = "get_params"
    /\ ret.ok
    /\ \E h \in Range(ret.val) : h.kind = "FormalParameter"

-----------------------------------------------------------------------------
(* Size derivation on cyclic type graphs.                                  *)

\* the tags of the DIE that links a member back to its aggregate
LinkTags ==
    {"DW_TAG_pointer_type", "DW_TAG_typedef", "DW_TAG_const_type",
     "DW_TAG_array_type"}

\* an aggregate (entry 2) with one member (entry 3) whose type is the
\* aggregate itself or a link (entry 4) whose type is the aggregate: every
\* cycle of the graph passes through the membership edge from 2 to 3
CyclicInput(t, size, ty, l, link_size) ==
    TypeInput(<<RootDie,
                [Die(t, 1) EXCEPT !.name = NameString("node"),
                                  !.byte_size = size],
                [Field(ty, Udata(0)) EXCEPT !.name = NameString("next")],
                [Die(l, 1) EXCEPT !.type = UnitRef(2),
                                  !.byte_size = link_size]>>)

InitCycle ==
    /\ \E t \in {"DW_TAG_structure_type", "DW_TAG_union_type"},
          size \in {Absent, Udata(8)},
          ty \in {UnitRef(2), UnitRef(4)},
          l \in LinkTags,
          link_size \in {Absent, Udata(8)} :
            dwarf = CyclicInput(t, size, ty, l, link_size)
    /\ op = "load"
    /\ arg = << >>
    /\ ret = << >>

SpecCycle == InitCycle /\ [][ByteSize]_vars

\* C28: on a type graph whose cycles all pass through a pointer edge or a
\* struct or union membership edge, byte_size returns: a size or an error.
C28_ByteSizeReturnsOnCycles ==
    op = "byte_size" => ret # Err("NoReturn")

-----------------------------------------------------------------------------
(* Claims about the subtractions of Struct::alignment_stats.               *)

\* the members of the struct have offsets and sizes, lie inside the struct
\* and come at offsets that do not decrease: they may share an offset or
\* reach into the next member
MembersInside ==
    /\ members(dwarf, arg.self).ok
    /\ byte_size(dwarf, arg.self).ok
    /\ \A k \in 1..Len(StatMembers) :
          /\ offset(dwarf, StatMembers[k]).ok
          /\ Member_byte_size(dwarf, StatMembers[k]).ok
          /\ StatEnd(k) <= byte_size(dwarf, arg.self).val
    /\ \A k \in 2..Len(StatMembers) : StatOffset(k - 1) <= StatOffset(k)

\* a usize that a subtraction below zero has wrapped lies in the upper half
\* of the range
Wrapped(n) == n >= UsizeModulus \div 2

\* C29: for every struct whose members lie inside it, overlapping or not,
\* no subtraction of alignment_stats goes below zero: the call does not
\* panic, and no hole and no padding is a wrapped difference.
C29_SubtractionsStayAboveZero ==
    (op = "alignment_stats" /\ MembersInside) =>
        /\ ret # Err("panic")
        /\ ret.ok =>
              /\ ~Wrapped(ret.val.padding)
              /\ ~Wrapped(ret.val.sum_holes)

-----------------------------------------------------------------------------
(* The reader of parse.rs.  A DIE is its tag and its attributes in the     *)
(* order of the abbreviation; a Location is the index of the unit among    *)
(* the units that parsed and the offset of the DIE.                        *)

Attr(at, str) == [at |-> at, str |-> str]

Item(t, attrs) == [tag |-> t, attrs |-> attrs]

Location(header, off) == [header |-> header, offset |-> off]

RECURSIVE NameFrom(_, _)
\* get_entry_name of parse.rs: the value of the first DW_AT_name
NameFrom(attrs, k) ==
    IF k > Len(attrs) THEN None
    ELSE IF attrs[k].at = "DW_AT_name" THEN Some(attrs[k].str)
    ELSE NameFrom(attrs, k + 1)

parse_get_entry_name(entry) == NameFrom(entry.attrs, 1)

\* one call of the callback
ItemCall(entry, location) == [entry |-> entry, location |-> location]

RECURSIVE AttrCalls(_, _, _)
\* the loop over the attributes of a DIE of the tag: DW_AT_declaration ends
\* it, every attribute before it calls the callback
AttrCalls(entry, location, k) ==
    IF k > Len(entry.attrs) THEN << >>
    ELSE IF entry.attrs[k].at = "DW_AT_declaration" THEN << >>
    ELSE <<ItemCall(entry, location)>> \o AttrCalls(entry, location, k + 1)

RECURSIVE EntryCalls(_, _, _, _)
\* the loop over the DIEs of a unit from offset i on
EntryCalls(unit, t, header_idx, i) ==
    IF i > Len(unit.entries) THEN << >>
    ELSE (IF unit.entries[i].tag # t THEN << >>
          ELSE AttrCalls(unit.entries[i], Location(header_idx, i), 1))
         \o EntryCalls(unit, t, header_idx, i + 1)

RECURSIVE UnitCalls(_, _, _, _)
\* the loop over the units from u on: a unit that does not parse is passed
\* over and not counted
UnitCalls(d, t, u, header_idx) ==
    IF u > Len(d.units) THEN << >>
    ELSE IF ~d.units[u].parses THEN UnitCalls(d, t, u + 1, header_idx)
    ELSE EntryCalls(d.units[u], t, header_idx, 1)
         \o UnitCalls(d, t, u + 1, header_idx + 1)

\* for_each_item with a callback that never asks to stop: the calls made,
\* in order
for_each_item(d, T) == UnitCalls(d, tag(T), 1, 0)

RECURSIVE NamedItems(_, _)
\* the callback of get_named_items over the calls
NamedItems(T, calls) ==
    IF calls = << >> THEN << >>
    ELSE (IF parse_get_entry_name(Head(calls).entry).some
          THEN <<<<parse_get_entry_name(Head(calls).entry).loc,
                   Handle(T, Head(calls).location)>>>>
          ELSE << >>)
         \o NamedItems(T, Tail(calls))

get_named_items(d, T) == Ok(NamedItems(T, for_each_item(d, T)))

\* the most DIEs of a unit of the inputs
MaxItems == 2

\* the attribute lists of the DIEs: none, a name, a name and a size, a
\* declaration with the name before or behind DW_AT_declaration, a size
AttrLists ==
    {<< >>,
     <<Attr("DW_AT_name", "foo")>>,
     <<Attr("DW_AT_name", "foo"), Attr("DW_AT_byte_size", "")>>,
     <<Attr("DW_AT_name", "bar"), Attr("DW_AT_declaration", "")>>,
     <<Attr("DW_AT_declaration", ""), Attr("DW_AT_name", "bar")>>,
     <<Attr("DW_AT_byte_size", "")>>}

ItemDies == { Item(t, attrs) : t \in ScanTags, attrs \in AttrLists }

ItemRoot == Item("DW_TAG_compile_unit", << >>)

\* a unit without types, which may fail to parse, before the unit with up
\* to MaxItems DIEs
InitItems ==
    /\ \E n \in 0..MaxItems, p \in BOOLEAN :
         \E ds \in [1..n -> ItemDies] :
            dwarf = [units |->
                        <<[parses |-> p, entries |-> <<ItemRoot>>],
                          [parses |-> TRUE, entries |-> <<ItemRoot>> \o ds]>>]
    /\ op = "load"
    /\ arg = << >>
    /\ ret = << >>

ForEachItem ==
    \E T \in ScanKinds :
        /\ op' = "for_each_item"
        /\ arg' = [T |-> T]
        /\ ret' = Ok(for_each_item(dwarf, T))
        /\ UNCHANGED dwarf

GetNamedItems ==
    \E T \in ScanKinds :
        /\ op' = "get_named_items"
        /\ arg' = [T |-> T]
        /\ ret' = get_named_items(dwarf, T)
        /\ UNCHANGED dwarf

NextItems == ForEachItem \/ GetNamedItems

SpecItems == InitItems /\ [][NextItems]_vars

\* the offsets of the DIEs of the tag of T in the unit of the items
ItemOffsets(T) ==
    { i \in 1..Len(dwarf.units[2].entries) :
        dwarf.units[2].entries[i].tag = tag(T) }

\* whether a DIE carries an attribute
CarriesAttr(entry, at) == \E k \in 1..Len(entry.attrs) : entry.attrs[k].at = at

\* how many elements of a sequence satisfy a test on the DIE offset
CountAt(s, i, OffsetOf(_)) ==
    Cardinality({ k \in 1..Len(s) : OffsetOf(s[k]) = i })

\* C30: for_each_item calls its callback at most once for a DIE of the tag
\* and never for a DIE that carries DW_AT_declaration, wherever the
\* attribute stands; get_named_items lists every named DIE of the tag that
\* is not a declaration exactly once.
C30_OneCallPerDefinition ==
    /\ op = "for_each_item" =>
         \A i \in ItemOffsets(arg.T) :
            /\ CountAt(ret.val, i, LAMBDA c : c.location.offset) <= 1
            /\ CarriesAttr(dwarf.units[2].entries[i], "DW_AT_declaration")
                 => CountAt(ret.val, i, LAMBDA c : c.location.offset) = 0
    /\ op = "get_named_items" =>
         \A i \in ItemOffsets(arg.T) :
            CountAt(ret.val, i, LAMBDA e : e[2].location.offset)
              = IF /\ CarriesAttr(dwarf.units[2].entries[i], "DW_AT_name")
                   /\ ~CarriesAttr(dwarf.units[2].entries[i],
                                   "DW_AT_declaration")
                THEN 1 ELSE 0

====
